---- MODULE Spec2Model ----
(***************************************************************************)
(* A model of ip_detector: the fallback resolver (package detector), the   *)
(* persisted configuration and the bounded history (package config), the   *)
(* credential vault (package storage), the detection cycle checkAndNotify  *)
(* and the daemon loop (package main), and the combined notification       *)
(* (package notifier).                                                     *)
(*                                                                         *)
(* Strings are TLA+ strings; an HTTP body is a sequence of tokens, each a  *)
(* whitespace character or an address text, so that strings.TrimSpace is   *)
(* computed and not assumed.  A lookup endpoint is identified by the name  *)
(* of its service and the address family.  A secret is the sequence of the *)
(* bytes of its string, and an encrypted field is the base64 text of the   *)
(* nonce, the ciphertext and the tag, computed byte by byte.               *)
(***************************************************************************)
EXTENDS Integers, Sequences, FiniteSets, TLC

VARIABLES
    Services,   \* detector.Services: the registry, in fallback order
    c4,         \* the last DetectIPv4WithFallback call: arguments, result, attempts
    c6,         \* the last DetectIPv6WithFallback call: arguments, result, attempts
    mode,       \* "oneshot" (the default command), "daemon" (--daemon) or "check" (--check)
    pc,         \* where the process is: main, a phase of checkAndNotify, the daemon's wait
    identity,   \* the machine identity deriveKey reads: hostname and user id
    disk,       \* ~/.ip_detector/config.json
    histFile,   \* ~/.ip_detector/ip_history.json
    cfg,        \* the *Config the running cycle holds; at the daemon's wait, the one the
                \* last cycle held
    st4,        \* ipv4Status of the running cycle
    st6,        \* ipv6Status of the running cycle
    now,        \* the cycle's now
    clock,      \* the wall clock, one unit per cycle
    ret,        \* what checkAndNotify returned: "none" while running, "nil", or the error;
                \* at the daemon's wait, the outcome runDaemon printed last
    exitCode,   \* the process's exit status, -1 while it runs
    tick,       \* the number of ticks ticker.C holds
    dropped,    \* a tick found ticker.C full since the daemon last took one
    sig,        \* sigChan holds a signal (a channel of capacity one)
    outbox,     \* the POSTs the cycle has made to the messaging endpoint, oldest first
                \* (the daemon's wait keeps none of them)
    log,        \* the effects the running cycle has attempted, in order
    pre,        \* the files and the outbox as they were when the running cycle started,
                \* and the record the daemon's cycle before failed to save
    cycles,     \* the number of cycles started
    faults      \* the number of file and HTTP failures the environment has injected, and
                \* of edits made to the state file from outside

vars == <<Services, c4, c6, mode, pc, identity, disk, histFile, cfg, st4, st6, now, clock,
          ret, exitCode, tick, dropped, sig, outbox, log, pre, cycles, faults>>

\* everything but the resolver's calls
rest == <<mode, pc, identity, disk, histFile, cfg, st4, st6, now, clock,
          ret, exitCode, tick, dropped, sig, outbox, log, pre, cycles, faults>>

----------------------------------------------------------------------------
(* Bounds and the values the environment may produce.                      *)

\* the registry of the dual-stack release
CurrentServices == <<"ipify", "icanhazip.com">>

\* the registry of the earlier single-stack release
LegacyServices == <<"ipify", "ifconfig.me", "ipinfo.io", "api.ip.sb", "icanhazip.com">>

Registries == {CurrentServices, LegacyServices}

\* a configured service name that is in no registry
UnknownService == "no-such-service"

IPv4Addrs == {"203.0.113.5", "198.51.100.9"}
IPv6Addrs == {"2001:db8::2"}

Whitespace == {" ", "\n", "\t"}

StatusOK == 200

\* what one GET can come back with: a transport error, or a status and a body
Response(transportErr, status, body) ==
    [transportErr |-> transportErr, status |-> status, body |-> body]

Responses(addrs) ==
    {Response(TRUE, 0, <<>>)}
    \cup {Response(FALSE, 503, <<CHOOSE a \in addrs : TRUE, "\n">>)}
    \cup {Response(FALSE, StatusOK, <<"\n">>)}
    \cup {Response(FALSE, StatusOK, <<a, "\n">>) : a \in addrs}

----------------------------------------------------------------------------
(* package detector                                                        *)

RECURSIVE TrimLeft(_)
TrimLeft(body) ==
    IF body # <<>> /\ Head(body) \in Whitespace THEN TrimLeft(Tail(body)) ELSE body

RECURSIVE TrimRight(_)
TrimRight(body) ==
    IF body # <<>> /\ body[Len(body)] \in Whitespace
    THEN TrimRight(SubSeq(body, 1, Len(body) - 1))
    ELSE body

\* strings.TrimSpace(string(body)); the bodies drawn hold at most one address text
TrimSpace(body) ==
    LET t == TrimRight(TrimLeft(body))
    IN  IF t = <<>> THEN "" ELSE t[1]

\* the index of the first registry entry called name, 0 for nil
GetServiceByName(name) ==
    IF \E i \in 1..Len(Services) : Services[i] = name
    THEN CHOOSE i \in 1..Len(Services) :
            Services[i] = name /\ \A j \in 1..(i - 1) : Services[j] # name
    ELSE 0

\* fetchIP without "if resp.StatusCode != http.StatusOK"
fetchIPAnyStatus(resp) ==
    IF resp.transportErr THEN [ip |-> "", err |-> TRUE]
    ELSE [ip |-> TrimSpace(resp.body), err |-> FALSE]

\* fetchIP: an error on a transport error or a status other than 200,
\* otherwise the trimmed body (which may be empty) and no error
fetchIP(resp) ==
    IF resp.transportErr THEN [ip |-> "", err |-> TRUE]
    ELSE IF resp.status # StatusOK THEN [ip |-> "", err |-> TRUE]
    ELSE [ip |-> TrimSpace(resp.body), err |-> FALSE]

DetectIPv4(service, net) == fetchIP(net[service])

DetectIPv6(service, net) == fetchIP(net[service])

Result(ip, service, err, attempts) ==
    [ip |-> ip, service |-> service, err |-> err, attempts |-> attempts]

\* the fallback loop without "if service.Name == primaryService { continue }"
RECURSIVE FallbackLoopV4NoSkip(_, _, _, _)
FallbackLoopV4NoSkip(i, primaryService, net, attempts) ==
    IF i > Len(Services)
    THEN Result("", "", TRUE, attempts)
    ELSE LET r == DetectIPv4(Services[i], net)
             tried == Append(attempts, Services[i])
         IN  IF ~r.err /\ r.ip # ""
             THEN Result(r.ip, Services[i], FALSE, tried)
             ELSE FallbackLoopV4NoSkip(i + 1, primaryService, net, tried)

\* the loop "for _, service := range Services" of DetectIPv4WithFallback, from entry i
RECURSIVE FallbackLoopV4(_, _, _, _)
FallbackLoopV4(i, primaryService, net, attempts) ==
    IF i > Len(Services)
    THEN Result("", "", TRUE, attempts)
    ELSE IF Services[i] = primaryService
    THEN FallbackLoopV4(i + 1, primaryService, net, attempts)
    ELSE LET r == DetectIPv4(Services[i], net)
             tried == Append(attempts, Services[i])
         IN  IF ~r.err /\ r.ip # ""
             THEN Result(r.ip, Services[i], FALSE, tried)
             ELSE FallbackLoopV4(i + 1, primaryService, net, tried)

\* DetectIPv4WithFallback without the attempt on the primary service first
DetectIPv4RegistryOrder(primaryService, net) ==
    FallbackLoopV4NoSkip(1, primaryService, net, <<>>)

DetectIPv4WithFallback(primaryService, net) ==
    LET primary == GetServiceByName(primaryService)
    IN  IF primary # 0
        THEN LET r == DetectIPv4(Services[primary], net)
             IN  IF ~r.err /\ r.ip # ""
                 THEN Result(r.ip, Services[primary], FALSE, <<Services[primary]>>)
                 ELSE FallbackLoopV4(1, primaryService, net, <<Services[primary]>>)
        ELSE FallbackLoopV4(1, primaryService, net, <<>>)

\* the IPv6 fallback loop ending as the IPv4 one does, with an error
RECURSIVE FallbackLoopV6Err(_, _, _, _)
FallbackLoopV6Err(i, primaryService, net, attempts) ==
    IF i > Len(Services)
    THEN Result("", "", TRUE, attempts)
    ELSE IF Services[i] = primaryService
    THEN FallbackLoopV6Err(i + 1, primaryService, net, attempts)
    ELSE LET r == DetectIPv6(Services[i], net)
             tried == Append(attempts, Services[i])
         IN  IF ~r.err /\ r.ip # ""
             THEN Result(r.ip, Services[i], FALSE, tried)
             ELSE FallbackLoopV6Err(i + 1, primaryService, net, tried)

\* the loop "for _, service := range Services" of DetectIPv6WithFallback, from entry i
RECURSIVE FallbackLoopV6(_, _, _, _)
FallbackLoopV6(i, primaryService, net, attempts) ==
    IF i > Len(Services)
    THEN Result("", "", FALSE, attempts)
    ELSE IF Services[i] = primaryService
    THEN FallbackLoopV6(i + 1, primaryService, net, attempts)
    ELSE LET r == DetectIPv6(Services[i], net)
             tried == Append(attempts, Services[i])
         IN  IF ~r.err /\ r.ip # ""
             THEN Result(r.ip, Services[i], FALSE, tried)
             ELSE FallbackLoopV6(i + 1, primaryService, net, tried)

DetectIPv6WithFallback(primaryService, net) ==
    LET primary == GetServiceByName(primaryService)
    IN  IF primary # 0
        THEN LET r == DetectIPv6(Services[primary], net)
             IN  IF ~r.err /\ r.ip # ""
                 THEN Result(r.ip, Services[primary], FALSE, <<Services[primary]>>)
                 ELSE FallbackLoopV6(1, primaryService, net, <<Services[primary]>>)
        ELSE FallbackLoopV6(1, primaryService, net, <<>>)

----------------------------------------------------------------------------
(* package storage                                                         *)

\* the machine the setup wizard ran on, and another one
SetupIdentity == [hostname |-> "vm-a", uid |-> "1000"]

OtherIdentity == [hostname |-> "vm-b", uid |-> "1000"]

\* the machines a config file may be read on
Identities == {SetupIdentity, OtherIdentity}

\* the credentials the setup wizard was given, as the bytes of their strings
BotToken == <<98, 111, 116>>

ChatID == <<52, 50>>

Salt == "ip_detector_secret_salt_v1"

\* gcm.NonceSize() and gcm.Overhead() of the standard GCM
NonceSize == 12

TagSize == 16

\* what rand.Reader gives a call of Encrypt: NonceSize bytes
Random(n) == [i \in 1..NonceSize |-> (n * 37 + i * 11) % 256]

\* sha256.Sum256 of the texts deriveKey can hash here, as SHA-256 computes them
Sum256(data) ==
    CASE data = "vm-a:1000:ip_detector_secret_salt_v1" ->
            <<101, 252, 182, 133, 247, 123, 161, 115, 168, 24, 39, 210, 203, 49, 52, 69,
             232, 235, 35, 253, 46, 224, 143, 181, 128, 174, 72, 138, 148, 216, 93, 168>>
      [] data = "vm-a:1001:ip_detector_secret_salt_v1" ->
            <<13, 121, 41, 152, 45, 150, 126, 60, 181, 222, 210, 14, 115, 202, 224, 174,
             68, 156, 251, 183, 127, 159, 67, 240, 189, 171, 7, 144, 169, 231, 185, 173>>
      [] data = "vm-b:1000:ip_detector_secret_salt_v1" ->
            <<250, 140, 198, 51, 156, 103, 99, 121, 238, 223, 196, 71, 211, 123, 160, 196,
             195, 49, 231, 164, 57, 79, 222, 164, 25, 159, 184, 244, 55, 120, 80, 89>>
      [] data = "vm-b:1001:ip_detector_secret_salt_v1" ->
            <<200, 226, 180, 234, 57, 80, 70, 169, 184, 24, 252, 6, 197, 84, 28, 199,
             218, 102, 248, 174, 100, 65, 97, 174, 110, 232, 78, 51, 142, 254, 136, 240>>
      [] data = "default-host:1000:ip_detector_secret_salt_v1" ->
            <<161, 228, 252, 179, 170, 73, 122, 118, 103, 9, 205, 96, 199, 208, 211, 247,
             204, 68, 52, 134, 0, 250, 74, 176, 237, 249, 113, 29, 188, 185, 217, 239>>
      [] data = "default-host:1001:ip_detector_secret_salt_v1" ->
            <<48, 193, 8, 41, 155, 118, 171, 117, 162, 97, 160, 54, 32, 108, 177, 152,
             99, 4, 13, 232, 9, 103, 58, 252, 90, 17, 100, 7, 148, 152, 78, 65>>

\* what rand.Reader gives when it cannot be read
ReadFailed == <<"io.ReadFull", "err">>

\* user.Current() fails on a machine whose identity has no user id
NoUser == ""

\* the key of a machine: os.Hostname() fails on an identity without a hostname
deriveKey(id) ==
    LET hostname == IF id.hostname = "" THEN "default-host" ELSE id.hostname
    IN  IF id.uid = NoUser
        THEN [key |-> <<>>, err |-> "failed to get current user"]
        ELSE [key |-> Sum256(hostname \o ":" \o id.uid \o ":" \o Salt), err |-> ""]

\* base64.StdEncoding: the alphabet, the character of a 6-bit value and back
encodeStd == "ABCDEFGHIJKLMNOPQRSTUVWXYZabcdefghijklmnopqrstuvwxyz0123456789+/"

StdChar(n) == SubSeq(encodeStd, n + 1, n + 1)

\* the characters of the alphabet, and the 6-bit value of each
StdChars == {StdChar(n) : n \in 0..63}

decodeMap == [ch \in StdChars |-> CHOOSE n \in 0..63 : StdChar(n) = ch]

\* base64.StdEncoding.EncodeToString: three bytes to four characters, "=" padding
RECURSIVE EncodeToString(_)
EncodeToString(src) ==
    IF src = <<>> THEN ""
    ELSE IF Len(src) = 1
    THEN StdChar(src[1] \div 4) \o StdChar((src[1] % 4) * 16) \o "=="
    ELSE IF Len(src) = 2
    THEN StdChar(src[1] \div 4) \o StdChar((src[1] % 4) * 16 + src[2] \div 16)
         \o StdChar((src[2] % 16) * 4) \o "="
    ELSE StdChar(src[1] \div 4) \o StdChar((src[1] % 4) * 16 + src[2] \div 16)
         \o StdChar((src[2] % 16) * 4 + src[3] \div 64) \o StdChar(src[3] % 64)
         \o EncodeToString(SubSeq(src, 4, Len(src)))

CorruptInput == [bytes |-> <<>>, err |-> TRUE]

\* base64.StdEncoding.DecodeString: quanta of four characters, each giving three
\* bytes, "=" only as the last one or two characters of the text, an error on any
\* other character or length (the texts decoded here hold no line breaks, which the
\* decoder would skip)
DecodeString(s) ==
    LET n == Len(s)
        pad == IF n >= 1 /\ SubSeq(s, n, n) = "="
               THEN IF n >= 2 /\ SubSeq(s, n - 1, n - 1) = "=" THEN 2 ELSE 1
               ELSE 0
        value(i) == decodeMap[SubSeq(s, i, i)]
    IN  IF n % 4 # 0 \/ \E i \in 1..(n - pad) : SubSeq(s, i, i) \notin StdChars
        THEN CorruptInput
        ELSE [bytes |-> [k \in 1..((n \div 4) * 3 - pad) |->
                            LET q == 4 * ((k - 1) \div 3)
                            IN  CASE (k - 1) % 3 = 0 ->
                                         value(q + 1) * 4 + value(q + 2) \div 16
                                  [] (k - 1) % 3 = 1 ->
                                         (value(q + 2) % 16) * 16 + value(q + 3) \div 4
                                  [] (k - 1) % 3 = 2 ->
                                         (value(q + 3) % 4) * 64 + value(q + 4)],
              err |-> FALSE]

\* AES-256-GCM, in outline: the cipher's key stream is a byte stream fixed by the key
\* and the nonce, the ciphertext is the plaintext combined with it byte by byte, and
\* the tag is TagSize bytes fixed by the key, the nonce and the ciphertext
KeyStream(key, nonce, i) ==
    (key[((i - 1) % Len(key)) + 1] + nonce[((i - 1) % NonceSize) + 1] + i) % 256

\* the first n bytes of the ciphertext folded into one byte, from the start value j
RECURSIVE Mix(_, _, _)
Mix(ciphertext, n, j) ==
    IF n = 0 THEN j
    ELSE (Mix(ciphertext, n - 1, j) * 31 + ciphertext[n] + 1) % 256

Tag(key, nonce, ciphertext) ==
    [j \in 1..TagSize |->
        (key[j] + nonce[((j - 1) % NonceSize) + 1] + Mix(ciphertext, Len(ciphertext), j))
        % 256]

\* gcm.Seal(nil, nonce, plaintext, nil): the ciphertext and the tag, the nonce left out
SealWithoutNonce(key, dst, nonce, plaintext) ==
    LET ciphertext == [i \in 1..Len(plaintext) |->
                          (plaintext[i] + KeyStream(key, nonce, i)) % 256]
    IN  ciphertext \o Tag(key, nonce, ciphertext)

\* gcm.Seal(dst, nonce, plaintext, nil): dst, the ciphertext, the tag
Seal(key, dst, nonce, plaintext) ==
    LET ciphertext == [i \in 1..Len(plaintext) |->
                          (plaintext[i] + KeyStream(key, nonce, i)) % 256]
    IN  dst \o ciphertext \o Tag(key, nonce, ciphertext)

\* gcm.Open(nil, nonce, ciphertext, nil): the plaintext when the tag is the one the
\* key gives, an error otherwise
Open(key, nonce, sealed) ==
    IF Len(sealed) < TagSize THEN [plaintext |-> <<>>, err |-> TRUE]
    ELSE LET ciphertext == SubSeq(sealed, 1, Len(sealed) - TagSize)
             tag == SubSeq(sealed, Len(sealed) - TagSize + 1, Len(sealed))
         IN  IF tag # Tag(key, nonce, ciphertext) THEN [plaintext |-> <<>>, err |-> TRUE]
             ELSE [plaintext |-> [i \in 1..Len(ciphertext) |->
                                     (ciphertext[i] + 256 - KeyStream(key, nonce, i)) % 256],
                   err |-> FALSE]

\* Encrypt with a nonce taken from the start of the key and not from rand.Reader
EncryptFixedNonce(plaintext, id, random) ==
    LET k == deriveKey(id)
    IN  IF k.err # "" THEN [blob |-> "", err |-> k.err]
        ELSE IF random = ReadFailed THEN [blob |-> "", err |-> "failed to generate nonce"]
        ELSE LET nonce == SubSeq(k.key, 1, NonceSize)
             IN  [blob |-> EncodeToString(Seal(k.key, nonce, nonce, plaintext)),
                  err |-> ""]

\* Encrypt: plaintext is the string's bytes, random what rand.Reader gives the call;
\* the blob is base64 of nonce || ciphertext || tag
Encrypt(plaintext, id, random) ==
    LET k == deriveKey(id)
    IN  IF k.err # "" THEN [blob |-> "", err |-> k.err]
        ELSE IF random = ReadFailed THEN [blob |-> "", err |-> "failed to generate nonce"]
        ELSE [blob |-> EncodeToString(Seal(k.key, random, random, plaintext)),
              err |-> ""]

\* machines with a user id, among them one whose hostname cannot be read and one
\* that is called as deriveKey calls such a machine
Machines ==
    {[hostname |-> h, uid |-> u] : h \in {"vm-a", "vm-b", "default-host", ""},
                                  u \in {"1000", "1001"}}

\* Decrypt's steps that opens the blob under whichever machine's key fits
decryptStepsAnyKey(encrypted, id) ==
    LET k == deriveKey(id)
        decoded == DecodeString(encrypted)
    IN  IF k.err # "" THEN [text |-> <<>>, err |-> k.err]
        ELSE IF decoded.err THEN [text |-> <<>>, err |-> "failed to decode base64"]
        ELSE IF Len(decoded.bytes) < NonceSize
        THEN [text |-> <<>>, err |-> "ciphertext too short"]
        ELSE LET nonce == SubSeq(decoded.bytes, 1, NonceSize)
                 sealed == SubSeq(decoded.bytes, NonceSize + 1, Len(decoded.bytes))
                 opened == {Open(deriveKey(other).key, nonce, sealed) : other \in Machines}
             IN  IF \A o \in opened : o.err
                 THEN [text |-> <<>>, err |-> "failed to decrypt"]
                 ELSE [text |-> (CHOOSE o \in opened : ~o.err).plaintext, err |-> ""]

\* the steps of Decrypt: the string's bytes and no error, or the zero string and the
\* error
decryptSteps(encrypted, id) ==
    LET k == deriveKey(id)
        decoded == DecodeString(encrypted)
    IN  IF k.err # "" THEN [text |-> <<>>, err |-> k.err]
        ELSE IF decoded.err THEN [text |-> <<>>, err |-> "failed to decode base64"]
        ELSE IF Len(decoded.bytes) < NonceSize
        THEN [text |-> <<>>, err |-> "ciphertext too short"]
        ELSE LET nonce == SubSeq(decoded.bytes, 1, NonceSize)
                 sealed == SubSeq(decoded.bytes, NonceSize + 1, Len(decoded.bytes))
                 opened == Open(k.key, nonce, sealed)
             IN  IF opened.err THEN [text |-> <<>>, err |-> "failed to decrypt"]
                 ELSE [text |-> opened.plaintext, err |-> ""]

\* the fields a state file can hold in the program's runs, on the machines it runs on:
\* what Decrypt gives on each, computed once
StoredBlobs ==
    {Encrypt(BotToken, SetupIdentity, Random(1)).blob,
     Encrypt(ChatID, SetupIdentity, Random(2)).blob,
     Encrypt(ChatID, OtherIdentity, Random(2)).blob,
     ""}

decrypted == [encrypted \in StoredBlobs, id \in Identities |-> decryptSteps(encrypted, id)]

Decrypt(encrypted, id) ==
    IF <<encrypted, id>> \in DOMAIN decrypted THEN decrypted[encrypted, id]
    ELSE decryptSteps(encrypted, id)

----------------------------------------------------------------------------
(* package config                                                          *)

maxHistoryLen == 500

\* a file: "absent", "corrupt" (present, unparsable) or "ok" with its parsed content
File(state, content) == [state |-> state, content |-> content]

Absent == File("absent", <<>>)

\* a file that does not parse, as a write that failed midway leaves it
Corrupt == File("corrupt", <<>>)

Config(service, token, chat, v4, v6, checked, legacy) ==
    [SelectedService |-> service, EncryptedBotToken |-> token, EncryptedChatID |-> chat,
     LastKnownIPv4 |-> v4, LastKnownIPv6 |-> v6, LastChecked |-> checked,
     LastKnownIP |-> legacy]

IPHistoryEntry(ts, ipType, oldIP, newIP) ==
    [Timestamp |-> ts, Type |-> ipType, OldIP |-> oldIP, NewIP |-> newIP]

\* what the file system does to a save: it works, MkdirAll fails, WriteFile fails
\* before it has touched the file, or WriteFile fails after it has truncated it
SaveOutcomes == {"ok", "mkdirErr", "writeErr", "partialWrite"}

\* the zero values of a blob and of a Config
NoBlob == ""

ZeroConfig == Config("", NoBlob, NoBlob, "", "", 0, "")

\* Exists: os.Stat of the config path succeeds
Exists(file) == file.state # "absent"

\* the save that writes the record as it is, legacy address included
SaveKeepingLegacy(c, file, io) ==
    IF io = "mkdirErr"
    THEN [cfg |-> c, file |-> file, err |-> "failed to create config directory"]
    ELSE IF io = "writeErr"
    THEN [cfg |-> c, file |-> file, err |-> "failed to write config file"]
    ELSE IF io = "partialWrite"
    THEN [cfg |-> c, file |-> Corrupt, err |-> "failed to write config file"]
    ELSE [cfg |-> c, file |-> File("ok", c), err |-> ""]

\* (c *Config) Save: c after the call, the file after the call, the error
Save(c, file, io) ==
    IF io = "mkdirErr"
    THEN [cfg |-> c, file |-> file, err |-> "failed to create config directory"]
    ELSE LET cleared == [c EXCEPT !.LastKnownIP = ""]
         IN  IF io = "writeErr"
             THEN [cfg |-> cleared, file |-> file, err |-> "failed to write config file"]
             ELSE IF io = "partialWrite"
             THEN [cfg |-> cleared, file |-> Corrupt, err |-> "failed to write config file"]
             ELSE [cfg |-> cleared, file |-> File("ok", cleared), err |-> ""]

\* Load: the config returned, the file after the call (migration saves), the error
Load(file, readOk, io) ==
    IF file.state = "absent" \/ ~readOk
    THEN [cfg |-> ZeroConfig, file |-> file, err |-> "failed to read config file"]
    ELSE IF file.state = "corrupt"
    THEN [cfg |-> ZeroConfig, file |-> file, err |-> "failed to parse config file"]
    ELSE LET config == file.content
         IN  IF config.LastKnownIP # "" /\ config.LastKnownIPv4 = ""
             THEN LET migrated == [config EXCEPT !.LastKnownIPv4 = config.LastKnownIP,
                                                 !.LastKnownIP = ""]
                      saved == Save(migrated, file, io)
                  IN  [cfg |-> saved.cfg, file |-> saved.file, err |-> ""]
             ELSE [cfg |-> config, file |-> file, err |-> ""]

\* the load that takes a file it cannot parse for an empty history
LoadHistoryCorruptAsEmpty(file, readOk) ==
    IF file.state = "absent" THEN [history |-> <<>>, err |-> ""]
    ELSE IF ~readOk THEN [history |-> <<>>, err |-> "failed to read history file"]
    ELSE IF file.state = "corrupt" THEN [history |-> <<>>, err |-> ""]
    ELSE [history |-> file.content, err |-> ""]

LoadHistory(file, readOk) ==
    IF file.state = "absent" THEN [history |-> <<>>, err |-> ""]
    ELSE IF ~readOk THEN [history |-> <<>>, err |-> "failed to read history file"]
    ELSE IF file.state = "corrupt"
    THEN [history |-> <<>>, err |-> "failed to parse history file"]
    ELSE [history |-> file.content, err |-> ""]

SaveHistory(history, file, io) ==
    IF io = "mkdirErr" THEN [file |-> file, err |-> "failed to create config directory"]
    ELSE IF io = "writeErr" THEN [file |-> file, err |-> "failed to write history file"]
    ELSE IF io = "partialWrite"
    THEN [file |-> Corrupt, err |-> "failed to write history file"]
    ELSE [file |-> File("ok", history), err |-> ""]

\* AddHistoryEntry appending the new entry after the existing ones
AddHistoryEntryAtEnd(file, ipType, oldIP, newIP, ts, readOk, io) ==
    LET loaded == LoadHistory(file, readOk)
    IN  IF loaded.err # "" THEN [file |-> file, err |-> loaded.err]
        ELSE LET entry == IPHistoryEntry(ts, ipType, oldIP, newIP)
                 history == loaded.history \o <<entry>>
                 trimmed == IF Len(history) > maxHistoryLen
                            THEN SubSeq(history, 1, maxHistoryLen)
                            ELSE history
             IN  SaveHistory(trimmed, file, io)

\* AddHistoryEntry trimming one entry too late
AddHistoryEntryOffByOne(file, ipType, oldIP, newIP, ts, readOk, io) ==
    LET loaded == LoadHistory(file, readOk)
    IN  IF loaded.err # "" THEN [file |-> file, err |-> loaded.err]
        ELSE LET entry == IPHistoryEntry(ts, ipType, oldIP, newIP)
                 history == <<entry>> \o loaded.history
                 trimmed == IF Len(history) > maxHistoryLen + 1
                            THEN SubSeq(history, 1, maxHistoryLen + 1)
                            ELSE history
             IN  SaveHistory(trimmed, file, io)

\* AddHistoryEntry at time ts: the file after the call and the error
AddHistoryEntry(file, ipType, oldIP, newIP, ts, readOk, io) ==
    LET loaded == LoadHistory(file, readOk)
    IN  IF loaded.err # "" THEN [file |-> file, err |-> loaded.err]
        ELSE LET entry == IPHistoryEntry(ts, ipType, oldIP, newIP)
                 history == <<entry>> \o loaded.history
                 trimmed == IF Len(history) > maxHistoryLen
                            THEN SubSeq(history, 1, maxHistoryLen)
                            ELSE history
             IN  SaveHistory(trimmed, file, io)

GetBotToken(c, id) == Decrypt(c.EncryptedBotToken, id)

GetChatID(c, id) == Decrypt(c.EncryptedChatID, id)

----------------------------------------------------------------------------
(* package notifier                                                        *)

IPStatus(current, previous, changed) ==
    [Current |-> current, Previous |-> previous, Changed |-> changed]

NoStatus == IPStatus("", "", FALSE)

\* one line of the message: "<cur> (new)", "<cur> <- <prev>", "<cur>", "Not available"
Section(kind, current, previous) == [kind |-> kind, cur |-> current, prev |-> previous]

SectionOf(status) ==
    IF status.Current # ""
    THEN IF status.Changed
         THEN IF status.Previous = ""
              THEN Section("new", status.Current, "")
              ELSE Section("changed", status.Current, status.Previous)
         ELSE Section("unchanged", status.Current, "")
    ELSE Section("not available", "", "")

\* the message whose title looks at the IPv4 verdict only
CombinedMessageTitleFromIPv4(hostname, ipv4, ipv6, timestamp) ==
    [title |-> IF ipv4.Changed /\ ipv4.Previous = ""
               THEN "IP Detector Initialized"
               ELSE "IP Address Changed",
     host |-> hostname,
     ipv4Section |-> SectionOf(ipv4),
     ipv6Section |-> SectionOf(ipv6),
     time |-> timestamp]

\* the message SendCombinedIPNotification hands to SendMessage
CombinedMessage(hostname, ipv4, ipv6, timestamp) ==
    [title |-> IF (ipv4.Changed /\ ipv4.Previous = "") \/ (ipv6.Changed /\ ipv6.Previous = "")
               THEN "IP Detector Initialized"
               ELSE "IP Address Changed",
     host |-> hostname,
     ipv4Section |-> SectionOf(ipv4),
     ipv6Section |-> SectionOf(ipv6),
     time |-> timestamp]

\* what the messaging endpoint does to a POST
HttpOutcomes == {"200", "transport error", "status 401"}

\* SendMessage: the error of a POST that met outcome http
SendMessage(http) ==
    IF http = "transport error" THEN "failed to send telegram message"
    ELSE IF http # "200" THEN "telegram API error"
    ELSE ""

----------------------------------------------------------------------------
(* package main: checkAndNotify, one action per phase                      *)

\* the most cycles a behaviour starts
MaxCycles == 2

\* the most file and HTTP failures the environment injects in a behaviour
MaxFaults == 1

\* the environment may fail an operation while its budget lasts; failed says
\* that the operation came out other than it does when nothing fails
Inject(failed) ==
    /\ failed => faults < MaxFaults
    /\ faults' = IF failed THEN faults + 1 ELSE faults

ServiceNames == {Services[i] : i \in 1..Len(Services)}

NoCall == [phase |-> "none", primary |-> "", net |-> <<>>, res |-> Result("", "", FALSE, <<>>)]

\* a call about to be made, and a call that has returned
Args(primary, net) ==
    [phase |-> "args", primary |-> primary, net |-> net, res |-> Result("", "", FALSE, <<>>)]

Call(primary, net, res) == [phase |-> "done", primary |-> primary, net |-> net, res |-> res]

\* a call that has returned inside a cycle: the endpoints' responses are not kept
Returned(primary, res) == [phase |-> "returned", primary |-> primary, net |-> <<>>, res |-> res]

\* the call tried every registry entry and none gave a usable response
Exhausted(call) ==
    /\ call.phase = "returned"
    /\ call.res.service = ""
    /\ Len(call.res.attempts) = Len(Services)

\* what the cycle holds of a call once it has printed the result: the address and
\* the error; the service name is not read again, and the attempts are kept only
\* as the mark of a call that exhausted the registry
Kept(call) ==
    Returned(call.primary,
             Result(call.res.ip, "", call.res.err,
                    IF Exhausted(call) THEN call.res.attempts ELSE <<>>))

\* an effect the cycle attempted, and whether it succeeded
Effect(op, ok) == [op |-> op, ok |-> ok]

\* unsaved is the record the daemon's cycle before held when its save failed, the
\* zero Config when it did not fail; saved is the state file as the daemon's last
\* cycle that saved it left it, cycles that found nothing changed since then
\* passed over, and no file when the cycle before did neither
NoSnapshot ==
    [disk |-> Absent, histFile |-> Absent, cfg |-> ZeroConfig, sent |-> 0,
     unsaved |-> ZeroConfig, saved |-> Absent]

Snapshot ==
    [disk |-> disk, histFile |-> histFile, cfg |-> cfg, sent |-> Len(outbox),
     unsaved |-> pre.unsaved, saved |-> pre.saved]

\* what the daemon's wait keeps of the cycle that returns
AtReturn ==
    IF mode # "daemon" THEN NoSnapshot
    ELSE [NoSnapshot EXCEPT
             !.unsaved = IF ret = "failed to save configuration" THEN cfg ELSE ZeroConfig,
             !.saved = IF log # <<>> /\ log[1] = Effect("save", TRUE) THEN disk
                       ELSE IF log = <<>> /\ ret = "nil" THEN pre.saved
                       ELSE Absent]

\* hostname, _ := os.Hostname(); "unknown" when empty
Hostname == IF identity.hostname = "" THEN "unknown" ELSE identity.hostname

\* the comparison without the test for an empty resolution
ChangedIgnoringEmpty(resolved, lastKnown) == resolved # lastKnown

\* the comparison that does not report a first recording
ChangedFromKnown(resolved, lastKnown) ==
    resolved # "" /\ lastKnown # "" /\ resolved # lastKnown

\* Changed: ipv4 != "" && ipv4 != cfg.LastKnownIPv4
Changed(resolved, lastKnown) == resolved # "" /\ resolved # lastKnown

\* the update without the tests for an empty resolution
UpdateConfigOverwrite(c, ipv4, ipv6, t) ==
    [c EXCEPT !.LastKnownIPv4 = ipv4, !.LastKnownIPv6 = ipv6, !.LastChecked = t]

\* the update that records the IPv4 address only
UpdateConfigIPv4Only(c, ipv4, ipv6, t) ==
    [c EXCEPT !.LastKnownIPv4 = IF ipv4 # "" THEN ipv4 ELSE @,
              !.LastChecked = t]

\* the update of cfg when anything changed
UpdateConfig(c, ipv4, ipv6, t) ==
    [c EXCEPT !.LastKnownIPv4 = IF ipv4 # "" THEN ipv4 ELSE @,
              !.LastKnownIPv6 = IF ipv6 # "" THEN ipv6 ELSE @,
              !.LastChecked = t]

\* the cycle of the single-address release: a failed detection returns an error
Resolve4AbortOnError ==
    /\ pc = "resolve4"
    /\ \E net \in [ServiceNames -> Responses(IPv4Addrs)] :
          LET res == DetectIPv4WithFallback(cfg.SelectedService, net)
          IN  /\ c4' = Returned(cfg.SelectedService, res)
              /\ IF res.err
                 THEN pc' = "return" /\ ret' = "failed to detect IP"
                 ELSE pc' = "resolve6" /\ ret' = "none"
    /\ c6' = NoCall
    /\ clock' = clock + 1
    /\ now' = clock + 1
    /\ cycles' = cycles + 1
    /\ log' = <<>>
    /\ pre' = Snapshot
    /\ st4' = NoStatus
    /\ st6' = NoStatus
    /\ UNCHANGED <<Services, mode, identity, disk, histFile, cfg, exitCode, tick, dropped, sig, outbox, faults>>

\* now := time.Now(); DetectIPv4WithFallback(cfg.SelectedService)
Resolve4 ==
    /\ pc = "resolve4"
    /\ \E net \in [ServiceNames -> Responses(IPv4Addrs)] :
          c4' = Returned(cfg.SelectedService, DetectIPv4WithFallback(cfg.SelectedService, net))
    /\ c6' = NoCall
    /\ clock' = clock + 1
    /\ now' = clock + 1
    /\ cycles' = cycles + 1
    /\ log' = <<>>
    /\ pre' = Snapshot
    /\ ret' = "none"
    /\ st4' = NoStatus
    /\ st6' = NoStatus
    /\ pc' = "resolve6"
    /\ UNCHANGED <<Services, mode, identity, disk, histFile, cfg, exitCode, tick, dropped, sig, outbox, faults>>

\* the IPv6 lookup given up when a shutdown signal is pending
Resolve6Cancellable ==
    /\ pc = "resolve6"
    /\ IF sig
       THEN /\ pc' = "exited"
            /\ exitCode' = 0
            /\ sig' = FALSE
            /\ c6' = c6
       ELSE /\ \E net \in [ServiceNames -> Responses(IPv6Addrs)] :
                  c6' = Returned(cfg.SelectedService,
                                 DetectIPv6WithFallback(cfg.SelectedService, net))
            /\ pc' = "evaluate"
            /\ UNCHANGED <<exitCode, sig>>
    /\ UNCHANGED <<Services, c4, mode, identity, disk, histFile, cfg, st4, st6, now, clock,
                   ret, tick, dropped, outbox, log, pre, cycles, faults>>

\* DetectIPv6WithFallback(cfg.SelectedService)
Resolve6 ==
    /\ pc = "resolve6"
    /\ \E net \in [ServiceNames -> Responses(IPv6Addrs)] :
          c6' = Returned(cfg.SelectedService, DetectIPv6WithFallback(cfg.SelectedService, net))
    /\ pc' = "evaluate"
    /\ UNCHANGED <<Services, c4, mode, identity, disk, histFile, cfg, st4, st6, now, clock,
                   ret, exitCode, tick, dropped, sig, outbox, log, pre, cycles, faults>>

\* the evaluation that records the time of the check whether anything changed or not
EvaluateAlwaysPersist ==
    /\ pc = "evaluate"
    /\ LET ipv4 == c4.res.ip
           ipv6 == c6.res.ip
       IN  /\ st4' = IPStatus(ipv4, cfg.LastKnownIPv4, Changed(ipv4, cfg.LastKnownIPv4))
           /\ st6' = IPStatus(ipv6, cfg.LastKnownIPv6, Changed(ipv6, cfg.LastKnownIPv6))
           /\ cfg' = UpdateConfig(cfg, ipv4, ipv6, now)
    /\ pc' = "save"
    /\ c4' = Kept(c4)
    /\ c6' = Kept(c6)
    /\ UNCHANGED <<Services, mode, identity, disk, histFile, now, clock, ret,
                   exitCode, tick, dropped, sig, outbox, log, pre, cycles, faults>>

\* the two IPStatus values and the branch on ipv4Status.Changed || ipv6Status.Changed;
\* from here on ipv4 and ipv6 are read as ipv4Status.Current and ipv6Status.Current
Evaluate ==
    /\ pc = "evaluate"
    /\ LET ipv4 == c4.res.ip
           ipv6 == c6.res.ip
           ipv4Status == IPStatus(ipv4, cfg.LastKnownIPv4, Changed(ipv4, cfg.LastKnownIPv4))
           ipv6Status == IPStatus(ipv6, cfg.LastKnownIPv6, Changed(ipv6, cfg.LastKnownIPv6))
       IN  /\ st4' = ipv4Status
           /\ st6' = ipv6Status
           /\ IF ipv4Status.Changed \/ ipv6Status.Changed
              THEN /\ cfg' = UpdateConfig(cfg, ipv4, ipv6, now)
                   /\ pc' = "save"
                   /\ ret' = ret
              ELSE /\ cfg' = cfg
                   /\ pc' = "return"
                   /\ ret' = "nil"
    /\ c4' = Kept(c4)
    /\ c6' = Kept(c6)
    /\ UNCHANGED <<Services, mode, identity, disk, histFile, now, clock,
                   exitCode, tick, dropped, sig, outbox, log, pre, cycles, faults>>

\* the save whose error is only logged
SaveConfigIgnoringError ==
    /\ pc = "save"
    /\ \E io \in SaveOutcomes :
          LET saved == Save(cfg, disk, io)
          IN  /\ Inject(io # "ok")
              /\ cfg' = saved.cfg
              /\ disk' = saved.file
              /\ log' = Append(log, Effect("save", saved.err = ""))
    /\ pc' = "history4"
    /\ UNCHANGED <<Services, c4, c6, mode, identity, histFile, st4, st6, now, clock,
                   ret, exitCode, tick, dropped, sig, outbox, pre, cycles>>

\* the save made only once the credentials have been decrypted
SaveConfigAfterCredentials ==
    /\ pc = "save"
    /\ IF GetBotToken(cfg, identity).err # "" \/ GetChatID(cfg, identity).err # ""
       THEN /\ pc' = "return"
            /\ ret' = "failed to decrypt"
            /\ log' = Append(log, Effect("decrypt", FALSE))
            /\ UNCHANGED <<cfg, disk, faults>>
       ELSE \E io \in SaveOutcomes :
               LET saved == Save(cfg, disk, io)
               IN  /\ Inject(io # "ok")
                   /\ cfg' = saved.cfg
                   /\ disk' = saved.file
                   /\ log' = Append(log, Effect("save", saved.err = ""))
                   /\ IF saved.err # ""
                      THEN pc' = "return" /\ ret' = "failed to save configuration"
                      ELSE pc' = "history4" /\ ret' = ret
    /\ UNCHANGED <<Services, c4, c6, mode, identity, histFile, st4, st6, now, clock,
                   exitCode, tick, dropped, sig, outbox, pre, cycles>>

\* cfg.Save()
SaveConfig ==
    /\ pc = "save"
    /\ \E io \in SaveOutcomes :
          LET saved == Save(cfg, disk, io)
          IN  /\ Inject(io # "ok")
              /\ cfg' = saved.cfg
              /\ disk' = saved.file
              /\ log' = Append(log, Effect("save", saved.err = ""))
              /\ IF saved.err # ""
                 THEN pc' = "return" /\ ret' = "failed to save configuration"
                 ELSE pc' = "history4" /\ ret' = ret
    /\ UNCHANGED <<Services, c4, c6, mode, identity, histFile, st4, st6, now, clock,
                   exitCode, tick, dropped, sig, outbox, pre, cycles>>

\* the history append whose error ends the cycle
History4AbortOnError ==
    /\ pc = "history4"
    /\ IF st4.Changed
       THEN \E readOk \in BOOLEAN, io \in SaveOutcomes :
               LET added == AddHistoryEntry(histFile, "ipv4", st4.Previous, st4.Current,
                                            clock, readOk, io)
               IN  /\ Inject(added # AddHistoryEntry(histFile, "ipv4", st4.Previous, st4.Current, clock, TRUE, "ok"))
                   /\ histFile' = added.file
                   /\ log' = Append(log, Effect("history ipv4", added.err = ""))
                   /\ IF added.err # ""
                      THEN pc' = "return" /\ ret' = "failed to save history"
                      ELSE pc' = "history6" /\ ret' = ret
       ELSE pc' = "history6" /\ UNCHANGED <<histFile, log, faults, ret>>
    /\ UNCHANGED <<Services, c4, c6, mode, identity, disk, cfg, st4, st6, now, clock,
                   exitCode, tick, dropped, sig, outbox, pre, cycles>>

\* if ipv4Status.Changed { config.AddHistoryEntry("ipv4", ...) }
History4 ==
    /\ pc = "history4"
    /\ IF st4.Changed
       THEN \E readOk \in BOOLEAN, io \in SaveOutcomes :
               LET added == AddHistoryEntry(histFile, "ipv4", st4.Previous, st4.Current,
                                            clock, readOk, io)
               IN  /\ Inject(added # AddHistoryEntry(histFile, "ipv4", st4.Previous, st4.Current, clock, TRUE, "ok"))
                   /\ histFile' = added.file
                   /\ log' = Append(log, Effect("history ipv4", added.err = ""))
       ELSE UNCHANGED <<histFile, log, faults>>
    /\ pc' = "history6"
    /\ UNCHANGED <<Services, c4, c6, mode, identity, disk, cfg, st4, st6, now, clock,
                   ret, exitCode, tick, dropped, sig, outbox, pre, cycles>>

\* the IPv6 history append made whatever the verdict
History6Always ==
    /\ pc = "history6"
    /\ \E readOk \in BOOLEAN, io \in SaveOutcomes :
          LET added == AddHistoryEntry(histFile, "ipv6", st6.Previous, st6.Current,
                                       clock, readOk, io)
          IN  /\ Inject(added # AddHistoryEntry(histFile, "ipv6", st6.Previous, st6.Current, clock, TRUE, "ok"))
              /\ histFile' = added.file
              /\ log' = Append(log, Effect("history ipv6", added.err = ""))
    /\ pc' = "notify"
    /\ UNCHANGED <<Services, c4, c6, mode, identity, disk, cfg, st4, st6, now, clock,
                   ret, exitCode, tick, dropped, sig, outbox, pre, cycles>>

\* if ipv6Status.Changed { config.AddHistoryEntry("ipv6", ...) }
History6 ==
    /\ pc = "history6"
    /\ IF st6.Changed
       THEN \E readOk \in BOOLEAN, io \in SaveOutcomes :
               LET added == AddHistoryEntry(histFile, "ipv6", st6.Previous, st6.Current,
                                            clock, readOk, io)
               IN  /\ Inject(added # AddHistoryEntry(histFile, "ipv6", st6.Previous, st6.Current, clock, TRUE, "ok"))
                   /\ histFile' = added.file
                   /\ log' = Append(log, Effect("history ipv6", added.err = ""))
       ELSE UNCHANGED <<histFile, log, faults>>
    /\ pc' = "notify"
    /\ UNCHANGED <<Services, c4, c6, mode, identity, disk, cfg, st4, st6, now, clock,
                   ret, exitCode, tick, dropped, sig, outbox, pre, cycles>>

\* the notification of the earlier release: one message per changed family
NotifyPerFamily ==
    /\ pc = "notify"
    /\ LET botToken == GetBotToken(cfg, identity)
           chatID == GetChatID(cfg, identity)
           post(ipv4, ipv6, http) ==
               [token |-> botToken.text, chat |-> chatID.text,
                message |-> CombinedMessage(Hostname, ipv4, ipv6, now),
                delivered |-> SendMessage(http) = ""]
       IN  IF botToken.err # "" \/ chatID.err # ""
           THEN /\ ret' = "failed to decrypt"
                /\ log' = Append(log, Effect("decrypt", FALSE))
                /\ outbox' = outbox
                /\ faults' = faults
           ELSE \E http \in HttpOutcomes :
                   /\ Inject(http # "200")
                   /\ outbox' = outbox
                                 \o (IF st4.Changed THEN <<post(st4, NoStatus, http)>> ELSE <<>>)
                                 \o (IF st6.Changed THEN <<post(NoStatus, st6, http)>> ELSE <<>>)
                   /\ log' = log
                              \o (IF st4.Changed THEN <<Effect("send", SendMessage(http) = "")>>
                                  ELSE <<>>)
                              \o (IF st6.Changed THEN <<Effect("send", SendMessage(http) = "")>>
                                  ELSE <<>>)
                   /\ ret' = IF SendMessage(http) # ""
                             THEN "failed to send notification"
                             ELSE "nil"
    /\ pc' = "return"
    /\ UNCHANGED <<Services, c4, c6, mode, identity, disk, histFile, cfg, st4, st6, now,
                   clock, exitCode, tick, dropped, sig, pre, cycles>>

\* GetBotToken, GetChatID, SendCombinedIPNotification
Notify ==
    /\ pc = "notify"
    /\ LET botToken == GetBotToken(cfg, identity)
           chatID == GetChatID(cfg, identity)
       IN  IF botToken.err # ""
           THEN /\ ret' = "failed to decrypt bot token"
                /\ log' = Append(log, Effect("decrypt", FALSE))
                /\ outbox' = outbox
                /\ faults' = faults
           ELSE IF chatID.err # ""
           THEN /\ ret' = "failed to decrypt chat ID"
                /\ log' = Append(log, Effect("decrypt", FALSE))
                /\ outbox' = outbox
                /\ faults' = faults
           ELSE \E http \in HttpOutcomes :
                   /\ Inject(http # "200")
                   /\ outbox' = Append(outbox,
                                       [token |-> botToken.text, chat |-> chatID.text,
                                        message |-> CombinedMessage(Hostname, st4, st6, now),
                                        delivered |-> SendMessage(http) = ""])
                   /\ log' = Append(log, Effect("send", SendMessage(http) = ""))
                   /\ ret' = IF SendMessage(http) # ""
                             THEN "failed to send notification"
                             ELSE "nil"
    /\ pc' = "return"
    /\ UNCHANGED <<Services, c4, c6, mode, identity, disk, histFile, cfg, st4, st6, now,
                   clock, exitCode, tick, dropped, sig, pre, cycles>>

----------------------------------------------------------------------------
(* package main: main and runDaemon                                        *)

\* --check: the service of the config when there is one that loads, else "ipify"
MainCheckOnly ==
    /\ pc = "main"
    /\ mode = "check"
    /\ IF Exists(disk)
       THEN \E readOk \in BOOLEAN, io \in SaveOutcomes :
               LET loaded == Load(disk, readOk, io)
               IN  /\ Inject(loaded # Load(disk, TRUE, "ok"))
                   /\ disk' = loaded.file
                   /\ c4' = Args(IF loaded.err = "" THEN loaded.cfg.SelectedService ELSE "ipify",
                                 <<>>)
       ELSE /\ c4' = Args("ipify", <<>>)
            /\ UNCHANGED <<disk, faults>>
    /\ pc' = "check4"
    /\ UNCHANGED <<Services, c6, mode, identity, histFile, cfg, st4, st6, now, clock,
                   ret, exitCode, tick, dropped, sig, outbox, log, pre, cycles>>

\* --check: DetectIPv4WithFallback(service), the error only printed
CheckIPv4 ==
    /\ pc = "check4"
    /\ \E net \in [ServiceNames -> Responses(IPv4Addrs)] :
          c4' = Returned(c4.primary, DetectIPv4WithFallback(c4.primary, net))
    /\ pc' = "check6"
    /\ UNCHANGED <<Services, c6, mode, identity, disk, histFile, cfg, st4, st6, now, clock,
                   ret, exitCode, tick, dropped, sig, outbox, log, pre, cycles, faults>>

\* --check: DetectIPv6WithFallback(service), then main returns
CheckIPv6 ==
    /\ pc = "check6"
    /\ \E net \in [ServiceNames -> Responses(IPv6Addrs)] :
          c6' = Returned(c4.primary, DetectIPv6WithFallback(c4.primary, net))
    /\ pc' = "exited"
    /\ exitCode' = 0
    /\ UNCHANGED <<Services, c4, mode, identity, disk, histFile, cfg, st4, st6, now, clock,
                   ret, tick, dropped, sig, outbox, log, pre, cycles, faults>>

\* the daemon that waits for its first tick before it runs a cycle
MainLoadWaitFirst ==
    /\ pc = "main"
    /\ mode # "check"
    /\ \E readOk \in BOOLEAN, io \in SaveOutcomes :
          LET loaded == Load(disk, readOk, io)
          IN  /\ Inject(loaded # Load(disk, TRUE, "ok"))
              /\ disk' = loaded.file
              /\ cfg' = loaded.cfg
              /\ IF loaded.err # ""
                 THEN pc' = "exited" /\ exitCode' = 1
                 ELSE /\ pc' = (IF mode = "daemon" THEN "wait" ELSE "resolve4")
                      /\ exitCode' = exitCode
    /\ UNCHANGED <<Services, c4, c6, mode, identity, histFile, st4, st6, now, clock,
                   ret, tick, dropped, sig, outbox, log, pre, cycles>>

\* config.Load() in main, then the first cycle (at once in daemon mode too)
MainLoad ==
    /\ pc = "main"
    /\ mode # "check"
    /\ \E readOk \in BOOLEAN, io \in SaveOutcomes :
          LET loaded == Load(disk, readOk, io)
          IN  /\ Inject(loaded # Load(disk, TRUE, "ok"))
              /\ disk' = loaded.file
              /\ cfg' = loaded.cfg
              /\ IF loaded.err # ""
                 THEN pc' = "exited" /\ exitCode' = 1
                 ELSE pc' = "resolve4" /\ exitCode' = exitCode
    /\ UNCHANGED <<Services, c4, c6, mode, identity, histFile, st4, st6, now, clock,
                   ret, tick, dropped, sig, outbox, log, pre, cycles>>

\* the loop that gives up on a failed cycle: runDaemon exits with status 1
CycleReturnFatal ==
    /\ pc = "return"
    /\ IF mode = "oneshot" \/ ret # "nil"
       THEN pc' = "exited" /\ exitCode' = (IF ret = "nil" THEN 0 ELSE 1) /\ ret' = ret
       ELSE pc' = "wait" /\ exitCode' = exitCode /\ ret' = ret
    /\ cfg' = (IF mode = "daemon" THEN cfg ELSE ZeroConfig)
    /\ st4' = NoStatus
    /\ st6' = NoStatus
    /\ log' = <<>>
    /\ pre' = AtReturn
    /\ c4' = NoCall
    /\ c6' = NoCall
    /\ outbox' = (IF mode = "daemon" THEN <<>> ELSE outbox)
    /\ UNCHANGED <<Services, mode, identity, disk, histFile, now, clock,
                   tick, dropped, sig, cycles, faults>>

\* checkAndNotify returns to main (which exits) or to runDaemon (which waits)
CycleReturn ==
    /\ pc = "return"
    /\ IF mode = "oneshot"
       THEN pc' = "exited" /\ exitCode' = (IF ret = "nil" THEN 0 ELSE 1) /\ ret' = ret
       ELSE pc' = "wait" /\ exitCode' = exitCode /\ ret' = ret
    /\ cfg' = (IF mode = "daemon" THEN cfg ELSE ZeroConfig)
    /\ st4' = NoStatus
    /\ st6' = NoStatus
    /\ log' = <<>>
    /\ pre' = AtReturn
    /\ c4' = NoCall
    /\ c6' = NoCall
    /\ outbox' = (IF mode = "daemon" THEN <<>> ELSE outbox)
    /\ UNCHANGED <<Services, mode, identity, disk, histFile, now, clock,
                   tick, dropped, sig, cycles, faults>>

InDaemon == mode = "daemon" /\ pc \notin {"main", "exited"}

\* ticker.C is a channel with room for one tick
TickerCapacity == 1

\* the ticker fires and nothing drops a tick: every tick waits its turn
TickQueued ==
    /\ InDaemon
    /\ dropped' = dropped
    /\ tick' = tick + 1
    /\ UNCHANGED <<Services, c4, c6, mode, pc, identity, disk, histFile, cfg, st4, st6, now,
                   clock, ret, exitCode, sig, outbox, log, pre, cycles, faults>>

\* the ticker fires; a tick that finds ticker.C full is dropped
Tick ==
    /\ InDaemon
    /\ dropped' = (dropped \/ tick = TickerCapacity)
    /\ tick' = IF tick < TickerCapacity THEN tick + 1 ELSE tick
    /\ UNCHANGED <<Services, c4, c6, mode, pc, identity, disk, histFile, cfg, st4, st6, now,
                   clock, ret, exitCode, sig, outbox, log, pre, cycles, faults>>

\* SIGINT or SIGTERM is delivered; a signal that finds sigChan full is dropped
Signal ==
    /\ InDaemon
    /\ sig' = TRUE
    /\ UNCHANGED <<Services, c4, c6, mode, pc, identity, disk, histFile, cfg, st4, st6, now,
                   clock, ret, exitCode, tick, dropped, outbox, log, pre, cycles, faults>>

\* the loop that serves pending ticks before it looks at the signal
WaitSignalAfterTicks ==
    /\ pc = "wait"
    /\ sig
    /\ tick = 0
    /\ sig' = FALSE
    /\ pc' = "exited"
    /\ exitCode' = 0
    /\ UNCHANGED <<Services, c4, c6, mode, identity, disk, histFile, cfg, st4, st6, now,
                   clock, ret, tick, dropped, outbox, log, pre, cycles, faults>>

\* case <-sigChan
WaitSignal ==
    /\ pc = "wait"
    /\ sig
    /\ sig' = FALSE
    /\ pc' = "exited"
    /\ exitCode' = 0
    /\ UNCHANGED <<Services, c4, c6, mode, identity, disk, histFile, cfg, st4, st6, now,
                   clock, ret, tick, dropped, outbox, log, pre, cycles, faults>>

\* the loop that goes on with the record the last cycle held, without a reload
WaitTickNoReload ==
    /\ pc = "wait"
    /\ tick > 0
    /\ cycles < MaxCycles
    /\ tick' = tick - 1
    /\ dropped' = FALSE
    /\ pc' = "resolve4"
    /\ ret' = "none"
    /\ UNCHANGED <<Services, c4, c6, mode, identity, disk, histFile, cfg, st4, st6, now, clock,
                   exitCode, sig, outbox, log, pre, cycles, faults>>

\* case <-ticker.C: reload the config, skip the cycle when that fails
WaitTick ==
    /\ pc = "wait"
    /\ tick > 0
    /\ cycles < MaxCycles
    /\ tick' = tick - 1
    /\ dropped' = FALSE
    /\ \E readOk \in BOOLEAN, io \in SaveOutcomes :
          LET loaded == Load(disk, readOk, io)
          IN  /\ Inject(loaded # Load(disk, TRUE, "ok"))
              /\ disk' = loaded.file
              /\ IF loaded.err # ""
                 THEN pc' = "wait" /\ cfg' = cfg /\ ret' = loaded.err
                 ELSE pc' = "resolve4" /\ cfg' = loaded.cfg /\ ret' = "none"
    /\ UNCHANGED <<Services, c4, c6, mode, identity, histFile, st4, st6, now, clock,
                   exitCode, sig, outbox, log, pre, cycles>>

\* the config files a run may start from: written by CreateNew, by an earlier
\* cycle, by the single-address release (legacy field set), or carrying both the
\* legacy field and an IPv4 address
InitConfigs ==
    {Config(c[1], Encrypt(BotToken, SetupIdentity, Random(1)).blob,
            Encrypt(ChatID, SetupIdentity, Random(2)).blob, c[2], c[3], 0, c[4]) :
        c \in {<<"ipify", "", "", "">>,
               <<"icanhazip.com", "203.0.113.5", "", "">>,
               <<"ifconfig.me", "203.0.113.5", "2001:db8::1", "">>,
               <<"ipify", "", "", "198.51.100.9">>,
               <<"icanhazip.com", "203.0.113.5", "", "198.51.100.9">>}}

\* the config file the setup wizard writes
FirstRunConfig ==
    Config("ipify", Encrypt(BotToken, SetupIdentity, Random(1)).blob,
           Encrypt(ChatID, SetupIdentity, Random(2)).blob,
           "", "", 0, "")

\* a config file that was copied to another machine
MovedConfig ==
    Config("ipify", Encrypt(BotToken, SetupIdentity, Random(1)).blob,
           Encrypt(ChatID, SetupIdentity, Random(2)).blob,
           "198.51.100.9", "", 0, "")

\* a config file whose chat ID field no longer decrypts on the machine it was made on
DamagedConfig ==
    Config("icanhazip.com", Encrypt(BotToken, SetupIdentity, Random(1)).blob,
           Encrypt(ChatID, OtherIdentity, Random(2)).blob,
           "203.0.113.5", "", 0, "")

\* the address an edit of the state file from outside records
EditedIPv4 == "192.0.2.77"

\* somebody edits the recorded IPv4 address in config.json while the daemon waits
\* for its next tick
ExternalEdit ==
    /\ InDaemon
    /\ pc = "wait"
    /\ disk.state = "ok"
    /\ disk.content.LastKnownIPv4 # EditedIPv4
    /\ Inject(TRUE)
    /\ disk' = File("ok", [disk.content EXCEPT !.LastKnownIPv4 = EditedIPv4])
    /\ UNCHANGED <<Services, c4, c6, mode, pc, identity, histFile, cfg, st4, st6, now, clock,
                   ret, exitCode, tick, dropped, sig, outbox, log, pre, cycles>>

Init ==
    /\ Services = CurrentServices
    /\ c4 = NoCall
    /\ c6 = NoCall
    /\ mode \in {"oneshot", "daemon", "check"}
    /\ pc = "main"
    /\ \/ identity = SetupIdentity /\ disk \in {File("ok", c) : c \in InitConfigs}
       \/ identity \in Identities \ {SetupIdentity} /\ disk = File("ok", MovedConfig)
       \/ identity = SetupIdentity /\ disk = File("ok", DamagedConfig)
       \/ mode = "check" /\ identity = SetupIdentity /\ disk = Absent
    /\ histFile = Absent
    /\ cfg = ZeroConfig
    /\ st4 = NoStatus
    /\ st6 = NoStatus
    /\ now = 0
    /\ clock = 0
    /\ ret = "none"
    /\ exitCode = -1
    /\ tick = 0
    /\ dropped = FALSE
    /\ sig = FALSE
    /\ outbox = <<>>
    /\ log = <<>>
    /\ pre = NoSnapshot
    /\ cycles = 0
    /\ faults = 0

Next ==
    \/ MainCheckOnly
    \/ CheckIPv4
    \/ CheckIPv6
    \/ MainLoad
    \/ Resolve4
    \/ Resolve6
    \/ Evaluate
    \/ SaveConfig
    \/ History4
    \/ History6
    \/ Notify
    \/ CycleReturn
    \/ Tick
    \/ Signal
    \/ WaitSignal
    \/ WaitTick
    \/ ExternalEdit

Spec == Init /\ [][Next]_vars

\* a step of checkAndNotify
CycleStep ==
    \/ Resolve4
    \/ Resolve6
    \/ Evaluate
    \/ SaveConfig
    \/ History4
    \/ History6
    \/ Notify
    \/ CycleReturn

\* The daemon (and --check) with its scheduling, started on the config of a first
\* run: main and a cycle go on to their end (every call returns: the HTTP client
\* has a timeout), a pending tick is served when nothing else is, and the select,
\* which picks at random among its ready cases, does not pass over a pending
\* signal for ever.
InitLive ==
    /\ Init
    /\ mode = "daemon" => disk = File("ok", FirstRunConfig)
    /\ mode = "check" => disk = Absent
    /\ mode # "oneshot"

\* a step of the program other than taking the signal: at most one of these is
\* possible at any position of the program
ProgramStep ==
    \/ MainLoad
    \/ MainCheckOnly
    \/ CheckIPv4
    \/ CheckIPv6
    \/ CycleStep
    \/ WaitTick

SpecLive ==
    /\ InitLive
    /\ [][Next]_vars
    /\ WF_vars(ProgramStep)
    /\ SF_vars(WaitSignal)

----------------------------------------------------------------------------
(* The detection cycle's properties, under Spec.  pre holds the files, the *)
(* config and the number of POSTs as they were when the cycle started.     *)

\* the cycle has computed its verdict
AfterEvaluate == pc \in {"save", "history4", "history6", "notify", "return"}

\* a cycle is running
InCycle == pc \in {"resolve6", "evaluate"} \/ AfterEvaluate

\* the family resolved to an address other than the one recorded before the cycle
Differs4 == st4.Current # "" /\ st4.Current # pre.cfg.LastKnownIPv4

Differs6 == st6.Current # "" /\ st6.Current # pre.cfg.LastKnownIPv6

\* the number of POSTs the running cycle has made
SentInCycle == Len(outbox) - pre.sent

\* the effects of the running cycle
Effects == {log[i] : i \in 1..Len(log)}

\* C1: a cycle in which each family resolved to nothing or to its last-known address
\* writes no state file, appends no history and sends nothing: the files and the
\* outbox are as they were before the cycle, and the cycle returns nil.
C1_NoOpCycle ==
    AfterEvaluate /\ ~Differs4 /\ ~Differs6 =>
        /\ pc = "return"
        /\ ret = "nil"
        /\ log = <<>>
        /\ disk = pre.disk
        /\ histFile = pre.histFile
        /\ SentInCycle = 0

\* a no-op cycle: IPv4 resolved to the recorded address, IPv6 is recorded but unavailable
C1_Witness ==
    /\ pc = "return"
    /\ st4.Current # ""
    /\ st4.Current = pre.cfg.LastKnownIPv4
    /\ st6.Current = ""
    /\ pre.cfg.LastKnownIPv6 # ""
    /\ disk = pre.disk

\* C2: for each family, changed is true exactly when the resolved address is not
\* empty and differs from the recorded one, and previous is the recorded address,
\* whether the family resolved or not.
C2_Verdict ==
    [][pc = "evaluate" /\ pc' # "evaluate" =>
          /\ st4' = IPStatus(c4.res.ip, cfg.LastKnownIPv4,
                             c4.res.ip # "" /\ c4.res.ip # cfg.LastKnownIPv4)
          /\ st6' = IPStatus(c6.res.ip, cfg.LastKnownIPv6,
                             c6.res.ip # "" /\ c6.res.ip # cfg.LastKnownIPv6)
          /\ cfg.LastKnownIPv4 = pre.cfg.LastKnownIPv4
          /\ cfg.LastKnownIPv6 = pre.cfg.LastKnownIPv6]_vars

\* IPv4 did not resolve and keeps its recorded address as previous, IPv6 changed
C2_Witness ==
    /\ pc = "save"
    /\ st4 = IPStatus("", "203.0.113.5", FALSE)
    /\ st6 = IPStatus("2001:db8::2", "2001:db8::1", TRUE)

\* the IPv4 address a persisted record stands for: Load reads the legacy field when
\* the IPv4 field is empty
LastKnown4(record) ==
    IF record.LastKnownIP # "" /\ record.LastKnownIPv4 = ""
    THEN record.LastKnownIP
    ELSE record.LastKnownIPv4

\* C3: a step of a cycle in which a family resolved to nothing leaves that family's
\* persisted last-known address as it was, also when the state file is rewritten for
\* the other family; and no step makes a non-empty persisted last-known address empty.
C3_EmptyNeverOverwrites ==
    [][disk.state = "ok" /\ disk'.state = "ok" =>
          /\ AfterEvaluate /\ st4.Current = "" =>
                LastKnown4(disk'.content) = LastKnown4(disk.content)
          /\ AfterEvaluate /\ st6.Current = "" =>
                disk'.content.LastKnownIPv6 = disk.content.LastKnownIPv6
          /\ LastKnown4(disk.content) # "" => LastKnown4(disk'.content) # ""
          /\ disk.content.LastKnownIPv6 # "" => disk'.content.LastKnownIPv6 # ""]_vars

\* the state file was rewritten for IPv6 while IPv4 did not resolve
C3_Witness ==
    /\ pc = "history4"
    /\ st4.Current = ""
    /\ st4.Previous # ""
    /\ st6.Changed
    /\ disk # pre.disk
    /\ disk.content.LastKnownIPv4 = st4.Previous
    /\ disk.content.LastKnownIPv6 = st6.Current

\* C4: a cycle makes at most one POST to the messaging endpoint, and makes one only
\* if some family resolved to an address other than the recorded one; also when both
\* families changed.
C4_AtMostOneNotification ==
    InCycle =>
        /\ SentInCycle \in {0, 1}
        /\ Cardinality({i \in 1..Len(log) : log[i].op = "send"}) = SentInCycle
        /\ SentInCycle = 1 => Differs4 \/ Differs6

\* both families changed and the cycle made one POST
C4_Witness ==
    /\ pc = "return"
    /\ Differs4
    /\ Differs6
    /\ SentInCycle = 1
    /\ outbox[Len(outbox)].message.ipv4Section.kind \in {"new", "changed"}
    /\ outbox[Len(outbox)].message.ipv6Section.kind \in {"new", "changed"}

SavedAndDecrypted ==
    /\ Effect("save", TRUE) \in Effects
    /\ GetBotToken(pre.cfg, identity).err = ""
    /\ GetChatID(pre.cfg, identity).err = ""

NewLastKnown4 == IF st4.Current # "" THEN st4.Current ELSE pre.cfg.LastKnownIPv4

NewLastKnown6 == IF st6.Current # "" THEN st6.Current ELSE pre.cfg.LastKnownIPv6

\* C6: when a cycle attempts the notification, its state save has succeeded before,
\* and the state file holds the new addresses then and afterwards, whether the POST
\* succeeds or fails.
C6_PersistBeforeNotify ==
    InCycle /\ (pc = "notify" \/ \E e \in Effects : e.op \in {"send", "decrypt"}) =>
        /\ log # <<>>
        /\ log[1] = Effect("save", TRUE)
        /\ disk.state = "ok"
        /\ disk.content.LastKnownIPv4 = NewLastKnown4
        /\ disk.content.LastKnownIPv6 = NewLastKnown6
        /\ disk.content.LastChecked = now

\* the POST failed and the state file holds the address that changed
C6_Witness ==
    /\ pc = "return"
    /\ log # <<>>
    /\ log[Len(log)] = Effect("send", FALSE)
    /\ st4.Changed
    /\ disk.content.LastKnownIPv4 = st4.Current
    /\ pre.disk.content.LastKnownIPv4 # st4.Current

\* the entries a history file holds, none when it is absent
Entries(file) == IF file.state = "ok" THEN file.content ELSE <<>>

Min(a, b) == IF a <= b THEN a ELSE b

\* the operations the running cycle has attempted, in order
Ops == [i \in 1..Len(log) |-> log[i].op]

\* the history entry the running cycle appends for a family
EntryOf(ipType, status) == IPHistoryEntry(clock, ipType, status.Previous, status.Current)

\* C12: in a cycle where IPv4 failed on every service, IPv6 is still resolved; when
\* it resolved to an address other than the recorded one, the verdict is unchanged
\* for IPv4 and changed for IPv6, the state saved holds the new IPv6 address and the
\* IPv4 address recorded before, the one history append is the IPv6 one, and (the
\* save and the credentials permitting) one notification is sent.
C12_FamilyIndependence ==
    AfterEvaluate /\ Exhausted(c4) /\ c4.res.err =>
        /\ c6.phase = "returned"
        /\ c6.res.ip # "" /\ c6.res.ip # pre.cfg.LastKnownIPv6 =>
              /\ st4 = IPStatus("", pre.cfg.LastKnownIPv4, FALSE)
              /\ st6 = IPStatus(c6.res.ip, pre.cfg.LastKnownIPv6, TRUE)
              /\ \A i \in 1..Len(log) : log[i].op # "history ipv4"
              /\ pc # "save" => log # <<>> /\ log[1].op = "save"
              /\ Effect("save", TRUE) \in Effects =>
                    /\ disk.content.LastKnownIPv6 = c6.res.ip
                    /\ disk.content.LastKnownIPv4 = pre.cfg.LastKnownIPv4
              /\ pc = "return" /\ Effect("save", TRUE) \in Effects =>
                    /\ SubSeq(Ops, 1, 2) = <<"save", "history ipv6">>
                    /\ Effect("history ipv6", TRUE) \in Effects =>
                          histFile.content = <<EntryOf("ipv6", st6)>> \o Entries(pre.histFile)
                    /\ SentInCycle = (IF SavedAndDecrypted THEN 1 ELSE 0)
                    /\ Len(log) = 3

\* IPv4 failed on both services, IPv6 changed: state saved with the earlier IPv4
\* address kept, one IPv6 history entry, one notification
C12_Witness ==
    /\ pc = "return"
    /\ Exhausted(c4)
    /\ c4.res.err
    /\ st6.Changed
    /\ pre.cfg.LastKnownIPv4 # ""
    /\ Ops = <<"save", "history ipv6", "send">>
    /\ \A i \in 1..3 : log[i].ok
    /\ disk.content.LastKnownIPv4 = pre.cfg.LastKnownIPv4
    /\ disk.content.LastKnownIPv6 = st6.Current
    /\ histFile.content[1].Type = "ipv6"
    /\ Len(histFile.content) = Len(Entries(pre.histFile)) + 1
    /\ SentInCycle = 1
    /\ outbox[Len(outbox)].message.ipv4Section.kind = "not available"

\* the running cycle's save of the state file failed
SaveFailed == InCycle /\ Effect("save", FALSE) \in Effects

\* what a failed save leaves of the cycle: nothing but the save attempted, the
\* error returned, the history file and the outbox untouched
AbortedAtSave ==
    /\ pc = "return"
    /\ log = <<Effect("save", FALSE)>>
    /\ ret = "failed to save configuration"
    /\ histFile = pre.histFile
    /\ SentInCycle = 0

HistoryFailed ==
    InCycle /\ (Effect("history ipv4", FALSE) \in Effects \/ Effect("history ipv6", FALSE) \in Effects)

\* the operations of a cycle that got past its save: the save, one history append
\* per changed family, then the notification (stopped at a failed decryption)
OpsPastSave(last) ==
    <<"save">> \o (IF st4.Changed THEN <<"history ipv4">> ELSE <<>>)
               \o (IF st6.Changed THEN <<"history ipv6">> ELSE <<>>)
               \o <<last>>

\* C14: a failed history append does not end the cycle: the state saved before it
\* stays as saved, the other changed family's append is still attempted, the
\* notification is still attempted (credentials are decrypted and, when they
\* decrypt, the POST is made), and the cycle's result does not mention the history.
C14_HistoryFailureSwallowed ==
    HistoryFailed =>
        /\ log[1] = Effect("save", TRUE)
        /\ disk.state = "ok"
        /\ disk.content.LastKnownIPv4 = NewLastKnown4
        /\ disk.content.LastKnownIPv6 = NewLastKnown6
        /\ pc \in {"history6", "notify", "return"}
        /\ pc = "return" =>
              /\ Ops \in {OpsPastSave("send"), OpsPastSave("decrypt")}
              /\ SentInCycle = (IF SavedAndDecrypted THEN 1 ELSE 0)
              /\ ret \in {"nil", "failed to send notification",
                          "failed to decrypt bot token", "failed to decrypt chat ID"}
              /\ ret = "nil" <=> log[Len(log)] = Effect("send", TRUE)

\* both families changed, the IPv4 history append failed, and the cycle went on to
\* append the IPv6 entry and to send the notification
C14_Witness ==
    /\ pc = "return"
    /\ Ops = <<"save", "history ipv4", "history ipv6", "send">>
    /\ log[2] = Effect("history ipv4", FALSE)
    /\ log[3] = Effect("history ipv6", TRUE)
    /\ log[4] = Effect("send", TRUE)
    /\ histFile.content[1].Type = "ipv6"
    /\ disk.content.LastKnownIPv4 = st4.Current
    /\ SentInCycle = 1
    /\ ret = "nil"

\* decrypting a credential failed in the running cycle
DecryptFailed == InCycle /\ Effect("decrypt", FALSE) \in Effects

\* the entries the running cycle has appended to the history, newest first
AppendedInCycle ==
    (IF Effect("history ipv6", TRUE) \in Effects THEN <<EntryOf("ipv6", st6)>> ELSE <<>>)
    \o (IF Effect("history ipv4", TRUE) \in Effects THEN <<EntryOf("ipv4", st4)>> ELSE <<>>)

\* C15: when the bot token or the chat ID fails to decrypt, the cycle ends with that
\* error and no POST is made, while the state file saved by the cycle and the
\* history entries it appended stay as written.
C15_DecryptFailureAbortsNotification ==
    DecryptFailed =>
        /\ pc = "return"
        /\ ret \in {"failed to decrypt bot token", "failed to decrypt chat ID"}
        /\ ret = "failed to decrypt bot token" <=> GetBotToken(pre.cfg, identity).err # ""
        /\ outbox = SubSeq(outbox, 1, pre.sent)
        /\ SentInCycle = 0
        /\ Ops = OpsPastSave("decrypt")
        /\ log[1] = Effect("save", TRUE)
        /\ disk.state = "ok"
        /\ disk.content.LastKnownIPv4 = NewLastKnown4
        /\ disk.content.LastKnownIPv6 = NewLastKnown6
        /\ histFile.state = "ok" =>
              histFile.content = AppendedInCycle \o Entries(pre.histFile)

\* the chat ID did not decrypt: nothing was sent, and the new address is in the
\* state file and in the history
C15_Witness ==
    /\ pc = "return"
    /\ ret = "failed to decrypt chat ID"
    /\ st4.Changed
    /\ Ops = <<"save", "history ipv4", "decrypt">>
    /\ log[2].ok
    /\ outbox = <<>>
    /\ disk.content.LastKnownIPv4 = st4.Current
    /\ disk # pre.disk
    /\ histFile.content[1] = EntryOf("ipv4", st4)

\* every registry endpoint failed, for both families
TotalOutage == Exhausted(c4) /\ c4.res.err /\ Exhausted(c6)

\* C16 as stated: when every endpoint fails for both families the cycle writes no
\* state, appends no history and sends nothing; the one-shot process (the default
\* command, and --check) then exits with a non-zero status, and the daemon goes
\* back to its wait.
C16_TotalOutage ==
    [][/\ pc = "return" /\ TotalOutage =>
             /\ log = <<>>
             /\ disk = pre.disk
             /\ histFile = pre.histFile
             /\ SentInCycle = 0
             /\ mode = "oneshot" => pc' = "exited" /\ exitCode' # 0
             /\ mode = "daemon" /\ pc' # pc => pc' = "wait"
       /\ mode = "check" /\ pc' = "exited" /\ TotalOutage' => exitCode' # 0]_vars

\* the phases of checkAndNotify before its return
CycleBody == {"resolve4", "resolve6", "evaluate", "save", "history4", "history6", "notify"}

\* C17: once runDaemon has started, the process ends only from the wait, by taking
\* the pending signal; a running cycle goes from phase to phase up to its return
\* and from there to the wait, whether a signal is pending or not; and a pending
\* signal stays pending until the wait takes it.
C17_CancellationBetweenCycles ==
    [][mode = "daemon" /\ pc # "main" =>
          /\ pc' = "exited" /\ pc # "exited" => pc = "wait" /\ sig /\ ~sig'
          /\ sig /\ ~sig' => pc = "wait" /\ pc' = "exited"
          /\ pc \in CycleBody /\ pc' # pc => pc' \in CycleBody \cup {"return"}
          /\ pc = "return" /\ pc' # pc => pc' = "wait" /\ sig' = sig]_vars

\* a signal is pending and the cycle has run through its save, its history append
\* and its POST
C17_Witness ==
    /\ mode = "daemon"
    /\ sig
    /\ pc = "return"
    /\ Ops = <<"save", "history ipv4", "send">>
    /\ SentInCycle = 1
    /\ exitCode = -1

\* C18: in daemon mode a tick pending at the wait is served (a cycle starts, or the
\* reload fails and the tick is spent) unless the daemon ends first, and once a
\* shutdown signal is pending the daemon ends, with pending ticks or without.
C18_DaemonShutdownLiveness ==
    /\ (mode = "daemon" /\ sig) ~> (pc = "exited")
    /\ (mode = "daemon" /\ pc = "wait" /\ tick > 0 /\ cycles < MaxCycles)
          ~> (pc = "resolve4" \/ tick = 0 \/ pc = "exited")

\* the daemon has ended on a signal after a cycle started by a tick, a tick pending
C18_Witness ==
    /\ mode = "daemon"
    /\ pc = "exited"
    /\ exitCode = 0
    /\ cycles = MaxCycles
    /\ tick > 0
    /\ ~sig

\* C19: ticker.C never holds more than one tick: when ticks have fired on a full
\* channel since the daemon last took one (during a cycle of any length, or at the
\* wait), one is pending and the others are gone, so the daemon takes one tick and
\* then has to wait for the ticker to fire again.
C19_NoTickBacklog ==
    /\ [](tick \in 0..1 /\ (dropped => tick = 1))
    /\ [][tick' < tick => pc = "wait" /\ tick' = 0 /\ ~dropped']_vars

\* ticks fired on a full channel while the first cycle ran; back at the wait one
\* tick is pending
C19_Witness ==
    /\ mode = "daemon"
    /\ pc = "wait"
    /\ cycles = 1
    /\ dropped
    /\ tick = 1

----
(* The resolver alone: every registry, preferred name and combination of   *)
(* endpoint outcomes, one call per behaviour.                              *)

\* the iteration at its return met a failure: an error returned (save, decryption
\* or dispatch), every IPv4 endpoint failed, or a history append failed
IterationFailed ==
    /\ pc = "return"
    /\ \/ ret # "nil"
       \/ Exhausted(c4) /\ c4.res.err
       \/ HistoryFailed

\* the reload at a tick failed: the tick is spent and the daemon is still at the wait
ReloadFailed == pc = "wait" /\ tick' < tick /\ pc' = "wait"

\* C20: in daemon mode no failure of an iteration ends the loop: from the return
\* of a failed cycle, and from a failed reload, the daemon is at the wait with no
\* exit status set; the only step to the terminal state is the wait taking the
\* signal; and a failed reload resolves nothing, writes nothing and sends nothing.
C20_DaemonSurvivesFailures ==
    [][InDaemon =>
          /\ exitCode = -1
          /\ IterationFailed /\ pc' # pc => pc' = "wait" /\ exitCode' = -1 /\ ret' = ret
          /\ ReloadFailed =>
                /\ ret' \in {"failed to read config file", "failed to parse config file"}
                /\ exitCode' = -1
                /\ c4' = NoCall /\ c6' = NoCall
                /\ cycles' = cycles
                /\ disk' = disk /\ histFile' = histFile
                /\ outbox' = outbox /\ log' = <<>>
          /\ pc = "wait" /\ tick' < tick /\ ~ReloadFailed => pc' = "resolve4" /\ ret' = "none"
          /\ pc' = "exited" => pc = "wait" /\ sig /\ exitCode' = 0]_vars

\* the first iteration failed at its save and left the state file truncated, the
\* reload at the next tick failed on it, and the daemon is at the wait
C20_Witness ==
    /\ mode = "daemon"
    /\ pc = "wait"
    /\ cycles = 1
    /\ disk = Corrupt
    /\ ret = "failed to parse config file"
    /\ tick = 0
    /\ exitCode = -1

\* the record a load of the state file gives: the file's content, the legacy
\* address moved to the IPv4 field
AsLoaded(record) ==
    IF record.LastKnownIP # "" /\ record.LastKnownIPv4 = ""
    THEN [record EXCEPT !.LastKnownIPv4 = record.LastKnownIP, !.LastKnownIP = ""]
    ELSE record

\* C21: every daemon cycle starts from the state file as it is on disk then: the
\* record the cycle holds when it starts is the one just read from the file (edits
\* made from outside since the last cycle included), whatever record the last
\* cycle held, and the verdict of each family compares the resolved address with
\* that record.
C21_ReloadEveryCycle ==
    [][mode = "daemon" =>
          /\ pc \in {"main", "wait"} /\ pc' = "resolve4" =>
                /\ disk.state = "ok"
                /\ cfg' = AsLoaded(disk.content)
          /\ pc = "resolve4" /\ pc' # pc => pre'.cfg = cfg /\ cfg' = cfg
          /\ pc = "evaluate" /\ pc' # pc =>
                /\ st4' = IPStatus(c4.res.ip, pre.cfg.LastKnownIPv4,
                                   Changed(c4.res.ip, pre.cfg.LastKnownIPv4))
                /\ st6' = IPStatus(c6.res.ip, pre.cfg.LastKnownIPv6,
                                   Changed(c6.res.ip, pre.cfg.LastKnownIPv6))]_vars

\* the second cycle of a daemon found the address written from outside after the
\* first cycle, reported the change from it and recorded the resolved one
C21_Witness ==
    /\ mode = "daemon"
    /\ cycles = 2
    /\ pc = "return"
    /\ ret = "nil"
    /\ st4 = IPStatus("203.0.113.5", EditedIPv4, TRUE)
    /\ pre.disk.content.LastKnownIPv4 = EditedIPv4
    /\ disk.content.LastKnownIPv4 = "203.0.113.5"
    /\ histFile.content[1].OldIP = EditedIPv4

\* the record on disk has the legacy address and no IPv4 address
NeedsMigration(file) ==
    /\ file.state = "ok"
    /\ file.content.LastKnownIP # ""
    /\ file.content.LastKnownIPv4 = ""

\* C24 as stated: a load of a record with the legacy address and no IPv4 address
\* returns the record with the address moved to the IPv4 field and the legacy
\* field empty, and when the load returns that record is what the state file holds.
C24_MigrationOnRead ==
    [][NeedsMigration(disk) /\ pc \in {"main", "wait"} /\ pc' = "resolve4" =>
          /\ disk' = File("ok", cfg')
          /\ cfg'.LastKnownIPv4 = disk.content.LastKnownIP
          /\ cfg'.LastKnownIP = ""]_vars

\* the part of C24 that does not depend on the write: the record returned
C24_MigratedRecordReturned ==
    [][NeedsMigration(disk) /\ pc \in {"main", "wait"} /\ pc' = "resolve4" =>
          /\ cfg' = [disk.content EXCEPT !.LastKnownIPv4 = disk.content.LastKnownIP,
                                         !.LastKnownIP = ""]
          /\ disk' \in {File("ok", cfg'), disk, Corrupt}]_vars

\* the step wrote the state file and the write succeeded (a save by Load or by the
\* cycle; an edit from outside is made while the daemon stays at its wait)
SavedStateFile ==
    /\ disk' # disk
    /\ disk'.state = "ok"
    /\ ~(pc = "wait" /\ pc' = "wait")

\* C25: every successful save leaves a state file without the legacy address,
\* whatever the record held when Save was called: the file written by a load is
\* the migrated record, the file written by a cycle is the cycle's record with
\* the legacy field empty.
C25_NoLegacyAfterSave ==
    [][SavedStateFile =>
          /\ disk'.content.LastKnownIP = ""
          /\ pc' = "resolve4" => disk'.content = AsLoaded(disk.content)
          /\ pc = "save" => disk'.content = [cfg EXCEPT !.LastKnownIP = ""]]_vars

\* the cycle started with a record that had the legacy address (and an IPv4
\* address), and its save has written the file without it
C25_Witness ==
    /\ pc = "history4"
    /\ pre.cfg.LastKnownIP # ""
    /\ pre.disk.content.LastKnownIP # ""
    /\ log = <<Effect("save", TRUE)>>
    /\ disk.content.LastKnownIP = ""
    /\ disk.content.LastKnownIPv4 = st4.Current

\* the number of cycles the process has entered
Started == cycles + (IF pc = "resolve4" THEN 1 ELSE 0)

\* C27 as stated, its particular case: once a shutdown signal is pending while no
\* tick is, the signal is the first of the two events, and the daemon enters no
\* further cycle (a running one goes on to its end).
C27_FirstEventHandled ==
    \A k \in 0..MaxCycles :
        [](mode = "daemon" /\ sig /\ tick = 0 /\ Started = k => [](Started = k))

\* a daemon cycle is running and the cycle before it failed at its save
RetryCycle == mode = "daemon" /\ InCycle /\ pre.unsaved # ZeroConfig

\* the first tick is taken after a cycle that failed at its save
TickAfterFailedSave ==
    /\ mode = "daemon"
    /\ pc = "wait"
    /\ ret = "failed to save configuration"
    /\ tick' < tick

\* the retry resolved the address the failed cycle had resolved and could not
\* save: it is in the record that was not saved and not in the file
SameAsUnsaved4 ==
    /\ st4.Current = pre.unsaved.LastKnownIPv4
    /\ st4.Current # ""
    /\ st4.Current # LastKnown4(pre.disk.content)

SameAsUnsaved6 ==
    /\ st6.Current = pre.unsaved.LastKnownIPv6
    /\ st6.Current # ""
    /\ st6.Current # pre.disk.content.LastKnownIPv6

\* what a retry does: it starts from the file and not from the record that was not
\* saved, reports again the families whose unsaved address it resolves again, and
\* attempts the save again and, past it, the history appends and the notification
Retries ==
    /\ RetryCycle =>
          /\ pre.disk.state = "ok"
          /\ pre.cfg = AsLoaded(pre.disk.content)
    /\ RetryCycle /\ AfterEvaluate =>
          /\ SameAsUnsaved4 => st4.Changed
          /\ SameAsUnsaved6 => st6.Changed
    /\ RetryCycle /\ pc = "return" /\ (st4.Changed \/ st6.Changed) =>
          /\ log # <<>>
          /\ log[1].op = "save"
          /\ log[1].ok => Ops \in {OpsPastSave("send"), OpsPastSave("decrypt")}

\* C28 as stated: a failed save leaves the state file unchanged, the next tick
\* reloads it (the record the failed cycle held is dropped) and starts a cycle, and
\* that cycle, resolving the same addresses, reports the same families changed and
\* attempts the save, the history appends and the notification again.
C28_RetryAfterFailedSave ==
    [][/\ mode = "daemon" /\ pc = "save" /\ pc' = "return" => disk' = disk
       /\ TickAfterFailedSave =>
             /\ disk.state = "ok"
             /\ pc' = "resolve4"
             /\ cfg' = AsLoaded(disk.content)
       /\ Retries]_vars

\* the part of C28 that holds: when the failed save left a file that parses, the
\* next tick that reads it starts the retry described
C28_RetryWhenFileIntact ==
    [][/\ mode = "daemon" /\ pc = "save" /\ pc' = "return" => disk' \in {disk, Corrupt}
       /\ TickAfterFailedSave /\ disk.state = "ok" /\ pc' = "resolve4" =>
             cfg' = AsLoaded(disk.content)
       /\ TickAfterFailedSave /\ disk.state = "corrupt" =>
             /\ pc' = "wait"
             /\ ret' \in {"failed to read config file", "failed to parse config file"}
             /\ disk' = disk
       /\ Retries]_vars

\* the retry: the cycle before failed at its save, this one resolved the same IPv4
\* address, reported it changed again, saved it and sent the notification
C28_Witness ==
    /\ RetryCycle
    /\ pc = "return"
    /\ cycles = 2
    /\ SameAsUnsaved4
    /\ st4.Changed
    /\ Ops = <<"save", "history ipv4", "send">>
    /\ ret = "nil"
    /\ disk.content.LastKnownIPv4 = pre.unsaved.LastKnownIPv4

\* the running cycle has attempted a history append tagged ipType
Attempted(ipType) == \E i \in 1..Len(log) : log[i].op = "history " \o ipType

\* C29: in a cycle whose save succeeded, once the history phase is over, an append
\* was attempted for a family exactly when its verdict is changed; and each entry
\* appended carries the family's tag, the address recorded before the cycle as old
\* value (empty on a first recording) and the resolved address as new value.
C29_HistoryMirrorsVerdict ==
    InCycle /\ Effect("save", TRUE) \in Effects /\ pc \in {"notify", "return"} =>
        /\ Attempted("ipv4") <=> st4.Changed
        /\ Attempted("ipv6") <=> st6.Changed
        /\ st4.Changed <=> c4.res.ip # "" /\ c4.res.ip # pre.cfg.LastKnownIPv4
        /\ st6.Changed <=> c6.res.ip # "" /\ c6.res.ip # pre.cfg.LastKnownIPv6
        /\ histFile.state = "ok" =>
              /\ histFile.content = AppendedInCycle \o Entries(pre.histFile)
              /\ Effect("history ipv4", TRUE) \in Effects =>
                    \E i \in 1..Len(AppendedInCycle) :
                        histFile.content[i] =
                            IPHistoryEntry(now, "ipv4", pre.cfg.LastKnownIPv4, c4.res.ip)
              /\ Effect("history ipv6", TRUE) \in Effects =>
                    histFile.content[1] =
                        IPHistoryEntry(now, "ipv6", pre.cfg.LastKnownIPv6, c6.res.ip)

\* recorded 203.0.113.5, resolved 198.51.100.9, IPv6 unchanged: the one entry
\* appended is {ipv4, old 203.0.113.5, new 198.51.100.9}
C29_Witness ==
    /\ pc = "return"
    /\ pre.cfg.LastKnownIPv4 = "203.0.113.5"
    /\ c4.res.ip = "198.51.100.9"
    /\ ~st6.Changed
    /\ Ops = <<"save", "history ipv4", "send">>
    /\ log[2].ok
    /\ Len(histFile.content) = Len(Entries(pre.histFile)) + 1
    /\ histFile.content[1].Type = "ipv4"
    /\ histFile.content[1].OldIP = "203.0.113.5"
    /\ histFile.content[1].NewIP = "198.51.100.9"

\* a family recorded for the first time in this cycle: nothing was recorded when the
\* cycle started and the resolver returned an address
FirstRecorded(recorded, status) == recorded = "" /\ status.Current # ""

\* C31: the message of a POST is titled as an initialization exactly when some
\* family's verdict is changed with an empty previous value, and as an address
\* change otherwise: a cycle that started with no IPv4 address recorded and resolved
\* one is titled initialization, and one in which no family went from nothing
\* recorded to an address is titled address change.
C31_NotificationHeader ==
    [][Len(outbox') > Len(outbox) =>
          LET title == outbox'[Len(outbox')].message.title
              fromEmpty == \/ st4.Changed /\ st4.Previous = ""
                           \/ st6.Changed /\ st6.Previous = ""
          IN  /\ title = (IF fromEmpty THEN "IP Detector Initialized"
                                        ELSE "IP Address Changed")
              /\ FirstRecorded(pre.cfg.LastKnownIPv4, st4) =>
                    title = "IP Detector Initialized"
              /\ /\ ~FirstRecorded(pre.cfg.LastKnownIPv4, st4)
                 /\ ~FirstRecorded(pre.cfg.LastKnownIPv6, st6)
                 => title = "IP Address Changed"]_vars

\* IPv4 went from one address to another and IPv6 was recorded for the first time:
\* the message is titled as an initialization
C31_Witness ==
    /\ pc = "return"
    /\ Len(outbox) > pre.sent
    /\ st4 = IPStatus("198.51.100.9", "203.0.113.5", TRUE)
    /\ st6.Changed
    /\ st6.Previous = ""
    /\ outbox[Len(outbox)].message.title = "IP Detector Initialized"

\* the running daemon cycle follows a cycle that saved the state file, no-op cycles in
\* between or none, and started from the file as that cycle left it
AfterSavedCycle ==
    /\ mode = "daemon"
    /\ pre.saved # Absent
    /\ pre.disk = pre.saved

\* the resolver returned, for each family, the address the saved cycle recorded or
\* nothing
SameOrEmpty ==
    /\ st4.Current \in {"", pre.saved.content.LastKnownIPv4}
    /\ st6.Current \in {"", pre.saved.content.LastKnownIPv6}

\* C34: a cycle whose save succeeded leaves in the state file every address it
\* resolved; and a later cycle of the daemon that starts from the file as that cycle
\* left it and resolves, for each family, the recorded address or nothing finds
\* nothing changed, writes no state file, appends no history and sends nothing, and
\* so does every cycle after it that resolves the same again.
C34_CyclesConverge ==
    /\ pc \in {"history4", "history6", "notify", "return"}
       /\ log # <<>> /\ log[1] = Effect("save", TRUE) =>
           /\ disk.state = "ok"
           /\ st4.Current # "" => disk.content.LastKnownIPv4 = st4.Current
           /\ st6.Current # "" => disk.content.LastKnownIPv6 = st6.Current
    /\ AfterEvaluate /\ AfterSavedCycle /\ SameOrEmpty =>
           /\ ~st4.Changed
           /\ ~st6.Changed
           /\ pc = "return"
           /\ ret = "nil"
           /\ log = <<>>
           /\ disk = pre.saved
           /\ histFile = pre.histFile
           /\ SentInCycle = 0

\* the first cycle recorded both families and saved; the second resolved the same
\* IPv4 address and no IPv6 address, and did nothing
C34_Witness ==
    /\ pc = "return"
    /\ cycles = 2
    /\ AfterSavedCycle
    /\ st4.Current # ""
    /\ st4.Current = pre.saved.content.LastKnownIPv4
    /\ st6.Current = ""
    /\ pre.saved.content.LastKnownIPv6 # ""
    /\ pre.saved.content.LastChecked > 0
    /\ disk = pre.saved

\* the daemon's first cycle is about to start or is running
FirstCycle ==
    /\ mode = "daemon"
    /\ Started = 1
    /\ pc \in CycleBody \cup {"return"}

\* C35: the daemon goes from the load in main straight into its first cycle, with
\* the record just loaded, no tick fired and none taken, and is at the wait only
\* after a cycle; and while the first cycle is about to start or runs no step takes
\* a tick or the signal or ends the process: a signal delivered then stays pending
\* until the cycle has returned to the wait, which is where it is taken.
C35_ImmediateFirstCycle ==
    /\ [](mode = "daemon" =>
            /\ pc = "wait" => cycles >= 1
            /\ Started = 0 => tick = 0 /\ ~dropped /\ ~sig)
    /\ [][mode = "daemon" =>
            /\ pc = "main" /\ pc' \notin {"main", "exited"} =>
                  /\ pc' = "resolve4"
                  /\ cycles' = 0
                  /\ tick' = 0
                  /\ disk.state = "ok"
                  /\ cfg' = AsLoaded(disk.content)
            /\ FirstCycle =>
                  /\ tick' >= tick
                  /\ sig => sig'
                  /\ pc' # "exited"
                  /\ pc = "resolve4" /\ pc' # pc => pre'.cfg = cfg /\ cfg' = cfg
                  /\ pc = "return" /\ pc' # pc => pc' = "wait" /\ cycles' = 1
            /\ sig /\ ~sig' => pc = "wait" /\ cycles >= 1 /\ pc' = "exited"]_vars

\* a signal was delivered before the first cycle ended; the cycle has saved the
\* state and reached its return, no tick has fired, and the signal is still pending
C35_Witness ==
    /\ mode = "daemon"
    /\ pc = "return"
    /\ cycles = 1
    /\ sig
    /\ tick = 0
    /\ ~dropped
    /\ ret = "nil"
    /\ log # <<>>
    /\ log[1] = Effect("save", TRUE)
    /\ exitCode = -1

ArgsOf(addrs) ==
    {Args(primary, net) : primary \in ServiceNames \cup {UnknownService},
                          net \in [ServiceNames -> Responses(addrs)]}

InitResolve ==
    /\ Services \in Registries
    /\ \/ c4 \in ArgsOf(IPv4Addrs) /\ c6 = NoCall
       \/ c6 \in ArgsOf(IPv6Addrs) /\ c4 = NoCall
    /\ mode = "resolve"
    /\ pc = "resolver"
    /\ identity = SetupIdentity
    /\ disk = Absent
    /\ histFile = Absent
    /\ cfg = ZeroConfig
    /\ st4 = NoStatus
    /\ st6 = NoStatus
    /\ now = 0
    /\ clock = 0
    /\ ret = "none"
    /\ exitCode = -1
    /\ tick = 0
    /\ dropped = FALSE
    /\ sig = FALSE
    /\ outbox = <<>>
    /\ log = <<>>
    /\ pre = NoSnapshot
    /\ cycles = 0
    /\ faults = 0

ResolveV4 ==
    /\ c4.phase = "args"
    /\ c4' = Call(c4.primary, c4.net, DetectIPv4WithFallback(c4.primary, c4.net))
    /\ UNCHANGED <<Services, c6, rest>>

ResolveV6 ==
    /\ c6.phase = "args"
    /\ c6' = Call(c6.primary, c6.net, DetectIPv6WithFallback(c6.primary, c6.net))
    /\ UNCHANGED <<Services, c4, rest>>

\* the networks that differ from net at one endpoint at most
Nearby(net, addrs) ==
    {[net EXCEPT ![name] = resp] : name \in ServiceNames, resp \in Responses(addrs)}

\* the next call's arguments
NextCallV4 ==
    /\ c4.phase = "done"
    /\ \/ \E primary \in ServiceNames \cup {UnknownService} : c4' = Args(primary, c4.net)
       \/ \E net \in Nearby(c4.net, IPv4Addrs) : c4' = Args(c4.primary, net)
    /\ UNCHANGED <<Services, c6, rest>>

NextCallV6 ==
    /\ c6.phase = "done"
    /\ \/ \E primary \in ServiceNames \cup {UnknownService} : c6' = Args(primary, c6.net)
       \/ \E net \in Nearby(c6.net, IPv6Addrs) : c6' = Args(c6.primary, net)
    /\ UNCHANGED <<Services, c4, rest>>

NextResolve == ResolveV4 \/ ResolveV6 \/ NextCallV4 \/ NextCallV6

SpecResolve == InitResolve /\ [][NextResolve]_vars

----------------------------------------------------------------------------
(* The resolver's properties, under SpecResolve.                           *)

\* the calls that have returned
ReturnedCalls == {c \in {c4, c6} : c.phase = "done"}

\* an endpoint's answer is usable: no transport error, status 200, some address text
Usable(resp) ==
    /\ ~resp.transportErr
    /\ resp.status = 200
    /\ \E i \in 1..Len(resp.body) : resp.body[i] \notin Whitespace

\* the address text of a usable answer
AddressIn(resp) ==
    resp.body[CHOOSE i \in 1..Len(resp.body) : resp.body[i] \notin Whitespace]

\* the registry without the entries called name, order kept
RECURSIVE Without(_, _)
Without(registry, name) ==
    IF registry = <<>> THEN <<>>
    ELSE IF Head(registry) = name THEN Without(Tail(registry), name)
    ELSE <<Head(registry)>> \o Without(Tail(registry), name)

\* the order a call with this preferred name has to try the services in
FallbackOrder(primary) ==
    IF primary \in ServiceNames THEN <<primary>> \o Without(Services, primary) ELSE Services

\* the positions of order whose endpoint is usable
UsableAt(order, net) == {i \in 1..Len(order) : Usable(net[order[i]])}

\* the position of the first usable endpoint, Len(order) when there is none
StopAt(order, net) ==
    IF UsableAt(order, net) = {} THEN Len(order)
    ELSE CHOOSE i \in UsableAt(order, net) : \A j \in UsableAt(order, net) : i <= j

\* C7: a resolve call tries the preferred service first when the registry has it, then
\* the other entries in registry order, and stops at the first usable answer, whose
\* address and service name it returns; with an unknown preferred name it goes through
\* the registry in order.
C7_FallbackOrder ==
    \A c \in ReturnedCalls :
        LET order == FallbackOrder(c.primary)
            stop == StopAt(order, c.net)
        IN  /\ c.res.attempts = SubSeq(order, 1, stop)
            /\ UsableAt(order, c.net) # {} =>
                  /\ c.res.service = order[stop]
                  /\ c.res.ip = AddressIn(c.net[order[stop]])
                  /\ ~c.res.err

\* registry [A, B, C, ...], preferred B: B fails, A answers, C is never asked
C7_Witness ==
    /\ Len(Services) >= 3
    /\ c4.phase = "done"
    /\ c4.primary = Services[2]
    /\ ~Usable(c4.net[Services[2]])
    /\ Usable(c4.net[Services[1]])
    /\ Usable(c4.net[Services[3]])
    /\ c4.res.service = Services[1]
    /\ c4.res.attempts = <<Services[2], Services[1]>>

\* C8: in one resolve call no service is attempted twice, so a call makes at most as
\* many attempts as the registry has entries; and every call, whatever the calls before
\* it did, starts again from the preferred service (from the first entry when the
\* preferred name is unknown).
C8_NoRetryFreshChain ==
    \A c \in ReturnedCalls :
        /\ \A i, j \in 1..Len(c.res.attempts) :
              c.res.attempts[i] = c.res.attempts[j] => i = j
        /\ Len(c.res.attempts) <= Len(Services)
        /\ c.res.attempts # <<>>
        /\ c.res.attempts[1] = (IF c.primary \in ServiceNames THEN c.primary ELSE Services[1])

\* a call that had to go through the whole registry, the preferred service not being first
C8_Witness ==
    /\ c4.phase = "done"
    /\ c4.primary = Services[Len(Services)]
    /\ Len(c4.res.attempts) = Len(Services)
    /\ Len(Services) > 2
    /\ c4.res.err

\* C9: when no endpoint gives a usable answer, the IPv4 call returns an error and an
\* empty address, the IPv6 call an empty address and no error; the IPv6 call returns
\* no error whatever the endpoints answer.
C9_ExhaustionByFamily ==
    /\ c4.phase = "done" =>
          (c4.res.err <=> \A name \in ServiceNames : ~Usable(c4.net[name]))
    /\ c4.phase = "done" /\ c4.res.err => c4.res.ip = "" /\ c4.res.service = ""
    /\ c6.phase = "done" => ~c6.res.err
    /\ c6.phase = "done" /\ (\A name \in ServiceNames : ~Usable(c6.net[name])) =>
          c6.res.ip = "" /\ c6.res.service = ""

\* every IPv6 endpoint failed and the call returned nothing, without an error
C9_Witness ==
    /\ c6.phase = "done"
    /\ \A name \in ServiceNames : ~Usable(c6.net[name])
    /\ c6.res.ip = ""
    /\ ~c6.res.err
    /\ Len(c6.res.attempts) = Len(Services)

\* an attempt on this endpoint fails: a transport error, a status other than 200, or a
\* body that holds nothing but whitespace
FailsAttempt(resp) ==
    \/ resp.transportErr
    \/ resp.status # 200
    \/ \A k \in 1..Len(resp.body) : resp.body[k] \in Whitespace

\* C30: an attempt fails exactly on a transport error, a status other than 200, or a
\* body that is empty after trimming; after a failed attempt the call moves on (the
\* failed service is not the one returned, and the call ends on a failure only when the
\* whole chain has been tried), an attempt that does not fail ends the call with that
\* service and its address, and a resolve never returns a service name with an empty
\* address.
C30_AttemptFailureCriteria ==
    \A c \in ReturnedCalls :
        LET tried == c.res.attempts
        IN  /\ \A i \in 1..Len(tried) :
                  IF FailsAttempt(c.net[tried[i]])
                  THEN /\ c.res.service # tried[i]
                       /\ i = Len(tried) =>
                             /\ c.res.service = ""
                             /\ Len(tried) = Len(FallbackOrder(c.primary))
                  ELSE /\ i = Len(tried)
                       /\ c.res.service = tried[i]
                       /\ c.res.ip = AddressIn(c.net[tried[i]])
            /\ c.res.service # "" => c.res.ip # ""
            /\ c.res.service = "" => c.res.ip = ""

\* one call meets all three kinds of failure, in some order, before an answer
C30_Witness ==
    /\ c4.phase = "done"
    /\ c4.res.service # ""
    /\ c4.res.ip # ""
    /\ \E i, j, k \in 1..(Len(c4.res.attempts) - 1) :
          /\ c4.net[c4.res.attempts[i]].transportErr
          /\ ~c4.net[c4.res.attempts[j]].transportErr
          /\ c4.net[c4.res.attempts[j]].status # 200
          /\ c4.net[c4.res.attempts[j]].body # <<"\n">>
          /\ ~c4.net[c4.res.attempts[k]].transportErr
          /\ c4.net[c4.res.attempts[k]].status = 200
          /\ c4.net[c4.res.attempts[k]].body = <<"\n">>

----------------------------------------------------------------------------
(* The history log alone.  A behaviour starts from an absent file and     *)
(* appends a routine sequence of changes, or starts from a file that holds *)
(* more entries than the cap; it then appends entries of any family and    *)
(* addresses, with file failures.  log lists the entries appended, oldest  *)
(* first; pre.histFile is the file the behaviour started from.             *)

\* the most appends of any entry a behaviour makes
MaxAppends == 3

\* the most entries above the cap a starting file holds
MaxOver == 2

\* the i-th entry of a routine sequence of changes, alternating the families
RoutineEntry(i) ==
    IF i % 2 = 1
    THEN IPHistoryEntry(i, "ipv4", "203.0.113.5", "198.51.100.9")
    ELSE IPHistoryEntry(i, "ipv6", "", "2001:db8::2")

\* the numbers of routine appends after which any entry may be appended
StartCounts == {0} \cup ((maxHistoryLen - 2)..(maxHistoryLen + 1))

InitHistory ==
    /\ \/ /\ histFile = Absent
          /\ clock = 0
          /\ pre = [NoSnapshot EXCEPT !.histFile = Absent]
       \/ \E k \in 1..MaxOver :
             /\ histFile = File("ok", [i \in 1..(maxHistoryLen + k) |->
                                          RoutineEntry(maxHistoryLen + k + 1 - i)])
             /\ clock = maxHistoryLen + k
             /\ pre = [NoSnapshot EXCEPT !.histFile = histFile]
    /\ log = <<>>
    /\ Services = CurrentServices
    /\ c4 = NoCall
    /\ c6 = NoCall
    /\ mode = "history"
    /\ pc = "routine"
    /\ identity = SetupIdentity
    /\ disk = Absent
    /\ cfg = ZeroConfig
    /\ st4 = NoStatus
    /\ st6 = NoStatus
    /\ now = 0
    /\ ret = "none"
    /\ exitCode = -1
    /\ tick = 0
    /\ dropped = FALSE
    /\ sig = FALSE
    /\ outbox = <<>>
    /\ cycles = 0
    /\ faults = 0

\* one call of AddHistoryEntry with the next routine entry, the file system working
RoutineAppend ==
    /\ pc = "routine"
    /\ pre.histFile = Absent
    /\ clock < maxHistoryLen + 1
    /\ LET e == RoutineEntry(clock + 1)
           added == AddHistoryEntry(histFile, e.Type, e.OldIP, e.NewIP, e.Timestamp, TRUE, "ok")
       IN  /\ histFile' = added.file
           /\ ret' = added.err
           /\ log' = Append(log, e)
    /\ clock' = clock + 1
    /\ UNCHANGED <<Services, c4, c6, mode, pc, identity, disk, cfg, st4, st6, now,
                   exitCode, tick, dropped, sig, outbox, pre, cycles, faults>>

\* the routine sequence ends
RoutineEnd ==
    /\ pc = "routine"
    /\ pre.histFile # Absent \/ clock \in StartCounts
    /\ pc' = "history"
    /\ UNCHANGED <<Services, c4, c6, mode, identity, disk, histFile, cfg, st4, st6, now, clock,
                   ret, exitCode, tick, dropped, sig, outbox, log, pre, cycles, faults>>

\* the changes appended: a first recording and a routine change, of either family
Changes ==
    {<<"ipv4", "", "203.0.113.5">>, <<"ipv4", "203.0.113.5", "198.51.100.9">>,
     <<"ipv6", "", "2001:db8::2">>, <<"ipv6", "2001:db8::1", "2001:db8::2">>}

\* one call of AddHistoryEntry; cycles counts the calls, ret is the last call's error
HistoryAppend ==
    /\ pc = "history"
    /\ cycles < MaxAppends
    /\ \E change \in Changes, readOk \in BOOLEAN, io \in SaveOutcomes :
          LET ipType == change[1]
              oldIP == change[2]
              newIP == change[3]
              added == AddHistoryEntry(histFile, ipType, oldIP, newIP, clock + 1, readOk, io)
          IN  /\ Inject(~readOk \/ io # "ok")
              /\ histFile' = added.file
              /\ ret' = added.err
              /\ log' = IF added.err = ""
                        THEN Append(log, IPHistoryEntry(clock + 1, ipType, oldIP, newIP))
                        ELSE log
    /\ clock' = clock + 1
    /\ cycles' = cycles + 1
    /\ UNCHANGED <<Services, c4, c6, mode, pc, identity, disk, cfg, st4, st6, now,
                   exitCode, tick, dropped, sig, outbox, pre>>

NextHistory == RoutineAppend \/ RoutineEnd \/ HistoryAppend

SpecHistory == InitHistory /\ [][NextHistory]_vars

----------------------------------------------------------------------------
(* The history log's properties, under SpecHistory.                        *)

\* C10: after a successful append the persisted history has at most 500 entries,
\* whatever the file held before (more than the cap included); and n successful
\* appends to an absent file leave min(n, 500) entries, for as long as the file
\* is one that parses (a write that fails midway leaves no history to count).
C10_HistoryBound ==
    /\ ret = "" => histFile.state = "ok" /\ Len(histFile.content) <= maxHistoryLen
    /\ log # <<>> => Len(Entries(histFile)) <= maxHistoryLen
    /\ pre.histFile = Absent /\ histFile.state # "corrupt" =>
          Len(Entries(histFile)) = Min(Len(log), maxHistoryLen)

\* the cap has been passed: more appends than the cap, and the log holds the cap
C10_Witness ==
    /\ pre.histFile = Absent
    /\ Len(log) > maxHistoryLen + 1
    /\ ret = ""
    /\ Len(histFile.content) = maxHistoryLen

\* the entries appended since the start, newest first
NewestFirst == [i \in 1..Len(log) |-> log[Len(log) + 1 - i]]

\* C11: the persisted history is the entries appended, newest first, followed by
\* the entries the file held before in their order, cut to the first 500: an
\* append puts its entry at the front, reorders nothing, and what is dropped is
\* the oldest end.  From an empty log the file holds the most recent 500 appended.
\* (A write that fails midway leaves a file that does not parse; no append
\* succeeds after that.)
C11_HistoryOrder ==
    log # <<>> /\ histFile.state # "corrupt" =>
        LET all == NewestFirst \o Entries(pre.histFile)
        IN  /\ histFile.state = "ok"
            /\ histFile.content = SubSeq(all, 1, Min(Len(all), maxHistoryLen))

\* 501 entries were appended to an empty log: the newest is first, the second
\* appended is last, and the first appended is gone
C11_Witness ==
    /\ pre.histFile = Absent
    /\ Len(log) = maxHistoryLen + 1
    /\ Len(histFile.content) = maxHistoryLen
    /\ histFile.content[1] = log[maxHistoryLen + 1]
    /\ histFile.content[maxHistoryLen] = log[2]
    /\ \A i \in 1..maxHistoryLen : histFile.content[i] # log[1]

\* C33: with no history file LoadHistory returns the empty history and no error, and
\* an append that returns no error leaves a file of one entry; with a file that does
\* not parse LoadHistory returns the parse error, and an append returns the error of
\* its load and leaves the file as it was, so that every later append fails as well.
C33_AbsentAndCorruptHistory ==
    /\ [](/\ histFile = Absent =>
                LoadHistory(histFile, TRUE) = [history |-> <<>>, err |-> ""]
          /\ histFile.state = "corrupt" =>
                /\ LoadHistory(histFile, TRUE).err = "failed to parse history file"
                /\ LoadHistory(histFile, FALSE).err = "failed to read history file")
    /\ [][clock' # clock =>
            /\ histFile = Absent /\ ret' = "" =>
                  /\ histFile'.state = "ok"
                  /\ Len(histFile'.content) = 1
                  /\ histFile'.content[1].Timestamp = clock'
            /\ histFile.state = "corrupt" =>
                  /\ ret' \in {"failed to parse history file", "failed to read history file"}
                  /\ histFile' = histFile]_vars

\* a write that failed midway left a file that does not parse, and the append after
\* it returned the parse error and left the file alone
C33_Witness ==
    /\ pc = "history"
    /\ cycles >= 2
    /\ histFile = Corrupt
    /\ ret = "failed to parse history file"

----------------------------------------------------------------------------
(* The vault alone.  A behaviour seals one secret on one machine, each call *)
(* of Encrypt with bytes rand.Reader has not given before, and keeps the    *)
(* last blob in the bot token field; the field is then opened by Decrypt on *)
(* that machine or, the file moved, on another one, as it was written or    *)
(* after an edit.  log lists the calls of Encrypt, oldest first; ret is     *)
(* what the last call of Decrypt was given and what it returned.            *)

\* the most calls of Encrypt a behaviour makes
MaxSeals == 2

\* the secrets: the empty string and strings of one and of two bytes
Plaintexts == {<<>>, <<0>>, <<255, 10>>}

\* the machines of the vault's behaviours, one of them without a user id
VaultMachines ==
    {SetupIdentity, OtherIdentity,
     [hostname |-> "vm-a", uid |-> "1001"],
     [hostname |-> "", uid |-> "1000"],
     [hostname |-> "default-host", uid |-> "1000"],
     [hostname |-> "vm-a", uid |-> NoUser]}

\* what rand.Reader has given the calls of Encrypt so far
Drawn == {log[i].random : i \in 1..Len(log)} \ {ReadFailed}

\* a call of Encrypt: its arguments, the bytes it read and what it returned
Sealing(id, plaintext, random, out) ==
    [id |-> id, plaintext |-> plaintext, random |-> random, blob |-> out.blob,
     err |-> out.err]

\* a call of Decrypt: its arguments and what it returned
Opening(encrypted, id, out) == [blob |-> encrypted, id |-> id, text |-> out.text, err |-> out.err]

\* the text with its last character but one replaced
Flipped(encrypted) ==
    LET n == Len(encrypted)
    IN  SubSeq(encrypted, 1, n - 2)
        \o (IF SubSeq(encrypted, n - 1, n - 1) = "A" THEN "B" ELSE "A")
        \o SubSeq(encrypted, n, n)

\* what an edit can leave in the field: an earlier blob, a blob with a character
\* changed or without its last quantum, the start of a blob, a text that is no
\* base64, nothing
Edits(encrypted) ==
    {log[i].blob : i \in 1..Len(log)}
    \cup (IF Len(encrypted) >= 24
          THEN {Flipped(encrypted), SubSeq(encrypted, 1, Len(encrypted) - 4),
                SubSeq(encrypted, 1, 8)}
          ELSE {})
    \cup {"not base64!", ""}

InitVault ==
    /\ mode = "vault"
    /\ pc = "setup"
    /\ identity \in VaultMachines
    /\ cfg = ZeroConfig
    /\ log = <<>>
    /\ ret = "none"
    /\ Services = CurrentServices
    /\ c4 = NoCall
    /\ c6 = NoCall
    /\ disk = Absent
    /\ histFile = Absent
    /\ st4 = NoStatus
    /\ st6 = NoStatus
    /\ now = 0
    /\ clock = 0
    /\ exitCode = -1
    /\ tick = 0
    /\ dropped = FALSE
    /\ sig = FALSE
    /\ outbox = <<>>
    /\ pre = NoSnapshot
    /\ cycles = 0
    /\ faults = 0

\* storage.Encrypt of the secret, the blob kept in the field when there is one
VaultEncrypt ==
    /\ mode = "vault"
    /\ pc = "setup"
    /\ Len(log) < MaxSeals
    /\ \E plaintext \in (IF log = <<>> THEN Plaintexts ELSE {log[1].plaintext}),
          random \in ({Random(n) : n \in 1..MaxSeals} \ Drawn) \cup {ReadFailed} :
          LET out == Encrypt(plaintext, identity, random)
          IN  /\ log' = Append(log, Sealing(identity, plaintext, random, out))
              /\ cfg' = IF out.err = "" THEN [cfg EXCEPT !.EncryptedBotToken = out.blob]
                        ELSE cfg
    /\ UNCHANGED <<Services, c4, c6, mode, pc, identity, disk, histFile, st4, st6, now,
                   clock, ret, exitCode, tick, dropped, sig, outbox, pre, cycles, faults>>

\* storage.Decrypt of the field
VaultDecrypt ==
    /\ mode = "vault"
    /\ pc \in {"setup", "use"}
    /\ log # <<>>
    /\ ret' = Opening(cfg.EncryptedBotToken, identity,
                      Decrypt(cfg.EncryptedBotToken, identity))
    /\ pc' = "opened"
    /\ UNCHANGED <<Services, c4, c6, mode, identity, disk, histFile, cfg, st4, st6, now,
                   clock, exitCode, tick, dropped, sig, outbox, log, pre, cycles, faults>>

\* the state file is taken to another machine
VaultMove ==
    /\ mode = "vault"
    /\ log # <<>>
    /\ \E other \in VaultMachines \ {identity} : identity' = other
    /\ pc' = "use"
    /\ ret' = "none"
    /\ UNCHANGED <<Services, c4, c6, mode, disk, histFile, cfg, st4, st6, now,
                   clock, exitCode, tick, dropped, sig, outbox, log, pre, cycles, faults>>

\* the field is edited
VaultEdit ==
    /\ mode = "vault"
    /\ log # <<>>
    /\ \E encrypted \in Edits(cfg.EncryptedBotToken) \ {cfg.EncryptedBotToken} :
          cfg' = [cfg EXCEPT !.EncryptedBotToken = encrypted]
    /\ pc' = "use"
    /\ ret' = "none"
    /\ UNCHANGED <<Services, c4, c6, mode, identity, disk, histFile, st4, st6, now,
                   clock, exitCode, tick, dropped, sig, outbox, log, pre, cycles, faults>>

NextVault == VaultEncrypt \/ VaultDecrypt \/ VaultMove \/ VaultEdit

SpecVault == InitVault /\ [][NextVault]_vars

----------------------------------------------------------------------------
(* The vault's properties, under SpecVault.                                *)

\* the calls of Encrypt that returned a blob
Sealed == {i \in 1..Len(log) : log[i].err = ""}

\* the last call of Decrypt was given the blob of the i-th call of Encrypt
OpenedBlobOf(i) == pc = "opened" /\ i \in Sealed /\ ret.blob = log[i].blob

\* C22: Decrypt of a blob Encrypt returned, on the machine (hostname, user id) Encrypt
\* ran on, succeeds and returns the string that was encrypted, byte for byte.
C22_VaultRoundTrip ==
    \A i \in 1..Len(log) :
        OpenedBlobOf(i) /\ ret.id = log[i].id =>
            /\ ret.err = ""
            /\ ret.text = log[i].plaintext

\* a secret of two bytes comes back on the machine that sealed it
C22_Witness ==
    /\ OpenedBlobOf(1)
    /\ ret.id = log[1].id
    /\ Len(log[1].plaintext) = 2
    /\ ret.text = log[1].plaintext

\* C23: machines whose hostname and user id can be read and differ in either have
\* different keys, and Decrypt of a blob Encrypt returned, under a key other than the
\* one it was sealed with, fails with the decryption error and returns no plaintext,
\* at every call.
C23_MachineBinding ==
    /\ \A a, b \in VaultMachines :
          a.hostname # "" /\ b.hostname # "" /\ a.uid # NoUser /\ b.uid # NoUser /\ a # b
              => deriveKey(a).key # deriveKey(b).key
    /\ \A i \in 1..Len(log) :
          /\ OpenedBlobOf(i)
          /\ deriveKey(ret.id).err = ""
          /\ deriveKey(ret.id).key # deriveKey(log[i].id).key
          => /\ ret.err = "failed to decrypt"
             /\ ret.text = <<>>

\* a blob sealed on one machine is refused on a machine of another name
C23_Witness ==
    /\ OpenedBlobOf(1)
    /\ log[1].id = SetupIdentity
    /\ ret.id = OtherIdentity
    /\ log[1].plaintext # <<>>
    /\ ret.err = "failed to decrypt"

\* C26: two calls of Encrypt with the same plaintext on the same machine, each with
\* bytes of rand.Reader that no call was given before, return different blobs.
C26_NonceFreshness ==
    \A i, j \in Sealed :
        i # j /\ log[i].plaintext = log[j].plaintext /\ log[i].id = log[j].id
            => log[i].blob # log[j].blob

\* the same secret sealed twice on one machine
C26_Witness ==
    /\ Len(log) = 2
    /\ Sealed = {1, 2}
    /\ log[1].plaintext = log[2].plaintext
    /\ log[1].id = log[2].id
    /\ log[1].blob # log[2].blob

\* the call of Decrypt just made failed after the key was derived
OpenFailed ==
    /\ pc = "opened"
    /\ ret.err # ""
    /\ deriveKey(ret.id).err = ""

\* C32 as stated: when Decrypt has failed on a field, be it no base64, shorter than
\* the nonce or refused by the authentication, it returns the error it returns for
\* every other content of the field it fails on, on the same machine.
C32_FailureCausesIndistinguishable ==
    OpenFailed =>
        \A other \in Edits(ret.blob) :
            Decrypt(other, ret.id).err \in {"", ret.err}

\* C32, what holds: a call of Decrypt that fails for any of the three causes returns
\* an error and the empty string, never a part of a plaintext.
C32_FailureReturnsNoPlaintext ==
    OpenFailed =>
        /\ ret.err \in {"failed to decode base64", "ciphertext too short",
                        "failed to decrypt"}
        /\ ret.text = <<>>

====
